---- MODULE Spec2Model ----
(***************************************************************************)
(* Turnaround event and state engine of porthub-royale.                    *)
(*                                                                         *)
(* One run of app.py on a frame ("tick") calls, in this order, the         *)
(* passenger-flow detector, the fingerdock detector, eval_tasks,           *)
(* update_sequence and compute_alerts_df on the tracked detections of the  *)
(* frame.  Each function is an operator on the part of the session state   *)
(* it reads and writes; each call is one action, ordered by pc as the      *)
(* script orders them, and the playback loop, the Reset button, tagging    *)
(* and the frames folder are the actions between two runs.  Frames carry   *)
(* tracked detections whose track ids are stable; SimpleIoUTracker is      *)
(* modelled on its own, on raw detections, in SpecTracker, and the role    *)
(* memory and hand-off on their own in SpecRoles.  Playback is modelled    *)
(* with the Loop box ticked, its default.                                  *)
(*                                                                         *)
(* Conventions.  Python dicts are functions whose DOMAIN is the set of     *)
(* keys present.  None is NoneT for timestamps and NoneP for positions.    *)
(* Timestamps are whole seconds (t_sec = float(idx)).  Centroids are kept  *)
(* doubled (x1+x2, y1+y2) so that (x1+x2)/2.0 needs no fractions; every    *)
(* comparison against a centroid doubles its other side.                   *)
(***************************************************************************)
EXTENDS Integers, Sequences, FiniteSets, TLC

\* ---------------------------------------------------------------- dicts
NoneT == -1

Get(d, k, default) == IF k \in DOMAIN d THEN d[k] ELSE default

Put(d, k, v) == [x \in (DOMAIN d) \cup {k} |-> IF x = k THEN v ELSE d[x]]

Del(d, k) == [x \in (DOMAIN d) \ {k} |-> d[x]]

EmptyDict == [x \in {} |-> 0]

Range(s) == {s[i] : i \in DOMAIN s}

\* ------------------------------------------------------- rules_engine.py
TASKS ==
  << [key |-> "fueling",                 role |-> "FUEL_TRUCK",   roi |-> "fuel"],
     [key |-> "gpu",                     role |-> "GPU_TRUCK",    roi |-> "nose"],
     [key |-> "baggage",                 role |-> "BELT_LOADER",  roi |-> "belly"],
     [key |-> "pushback",                role |-> "PUSHBACK_TUG", roi |-> "aircraft"],
     [key |-> "safety_engine_clear",     role |-> "PERSON",       roi |-> "engine"],
     [key |-> "safety_pushback_clear",   role |-> "PERSON",       roi |-> "pushback"],
     [key |-> "safety_airside_presence", role |-> "PERSON",       roi |-> "aircraft"] >>

TaskKeys == {TASKS[i].key : i \in DOMAIN TASKS}

\* The ROI rectangles app.py parses from its sidebar defaults.
NoneRoi == << >>

DefaultRois ==
  [ nose           |-> <<260, 250, 620, 520>>,
    fuel           |-> <<620, 170, 980, 520>>,
    belly          |-> <<250, 320, 520, 650>>,
    aircraft       |-> <<250, 120, 980, 690>>,
    engine         |-> <<330, 300, 620, 560>>,
    pushback       |-> <<120, 420, 330, 680>>,
    passenger_door |-> <<920, 140, 1120, 380>>,
    fingerdock     |-> <<820, 160, 1080, 500>> ]

\* (x1+x2)/2.0 and (y1+y2)/2.0, doubled.
Centroid2(bbox) == <<bbox[1] + bbox[3], bbox[2] + bbox[4]>>

_in_roi_strict(bbox, roi) ==
  LET c == Centroid2(bbox) IN
    /\ 2 * roi[1] < c[1] /\ c[1] < 2 * roi[3]
    /\ 2 * roi[2] < c[2] /\ c[2] < 2 * roi[4]

\* rx1 <= cx <= rx2 and ry1 <= cy <= ry2 on the doubled centroid.
_in_roi(bbox, roi) ==
  LET c == Centroid2(bbox) IN
    /\ 2 * roi[1] <= c[1] /\ c[1] <= 2 * roi[3]
    /\ 2 * roi[2] <= c[2] /\ c[2] <= 2 * roi[4]

NewTask == [status |-> "NOT_STARTED", since |-> NoneT, last_seen |-> NoneT]

\* task_hist.setdefault(key, {...}): the dict with the key present.
_ensure_task(task_hist, key) ==
  IF key \in DOMAIN task_hist THEN task_hist ELSE Put(task_hist, key, NewTask)

\* An event of the event log: log(level, t_sec, msg).
LogEvent(level, t, msg) == [level |-> level, t_sec |-> t, msg |-> msg]

\* _set_status stamping since on every call.
_set_status_restamp(task_hist, key, status, t_sec) ==
  LET th0  == _ensure_task(task_hist, key)
      h    == th0[key]
      prev == h.status
  IN [ task_hist |-> Put(th0, key, [h EXCEPT !.status = status, !.since = t_sec,
                                             !.last_seen = t_sec]),
       log       |-> IF prev # status
                       THEN << LogEvent("task", t_sec, <<key, "=>", status>>) >>
                       ELSE << >> ]

\* Returns the task store and the events logged.
_set_status(task_hist, key, status, t_sec) ==
  LET th0  == _ensure_task(task_hist, key)
      h    == th0[key]
      prev == h.status
      h1   == IF prev # status
                THEN [h EXCEPT !.status = status, !.since = t_sec]
                ELSE h
  IN [ task_hist |-> Put(th0, key, [h1 EXCEPT !.last_seen = t_sec]),
       log       |-> IF prev # status
                       THEN << LogEvent("task", t_sec, <<key, "=>", status>>) >>
                       ELSE << >> ]

\* any_role_in_roi of eval_tasks: dets_df is a sequence of tracked
\* detections [track_id, cls_name, bbox], asset_roles maps track_id -> role.
any_role_in_roi(dets_df, rois, asset_roles, role, roi_key) ==
  LET roi == rois[roi_key] IN
  IF roi = NoneRoi \/ dets_df = << >> THEN FALSE
  ELSE IF role = "PERSON"
    THEN \E i \in DOMAIN dets_df :
            /\ dets_df[i].cls_name = "person"
            /\ _in_roi(dets_df[i].bbox, roi)
    ELSE LET tagged_ids == {tid \in DOMAIN asset_roles : asset_roles[tid] = role} IN
         \E i \in DOMAIN dets_df :
            /\ dets_df[i].track_id \in tagged_ids
            /\ _in_roi(dets_df[i].bbox, roi)

\* One iteration of the loop "for t in TASKS" on the record
\* [task_hist, task_counters, log].
EvalOneTask(st, task, dets_df, rois, t_sec, asset_roles) ==
  LET key  == task.key
      seen == any_role_in_roi(dets_df, rois, asset_roles, task.role, task.roi)
      th0  == _ensure_task(st.task_hist, key)
      prev_status == th0[key].status
  IN IF seen
       THEN LET r == _set_status(th0, key, "ACTIVE", t_sec) IN
            [ task_hist     |-> r.task_hist,
              task_counters |-> Put(st.task_counters, key, t_sec),
              log           |-> st.log \o r.log ]
     ELSE IF prev_status = "ACTIVE"
       THEN LET r == _set_status(th0, key, "INACTIVE", t_sec) IN
            [ task_hist     |-> r.task_hist,
              task_counters |-> st.task_counters,
              log           |-> st.log \o r.log ]
     ELSE [ task_hist     |-> Put(th0, key, [th0[key] EXCEPT !.last_seen = t_sec]),
            task_counters |-> st.task_counters,
            log           |-> st.log ]

RECURSIVE EvalTasksFrom(_, _, _, _, _, _)
EvalTasksFrom(i, st, dets_df, rois, t_sec, asset_roles) ==
  IF i > Len(TASKS) THEN st
  ELSE EvalTasksFrom(i + 1,
                     EvalOneTask(st, TASKS[i], dets_df, rois, t_sec, asset_roles),
                     dets_df, rois, t_sec, asset_roles)

\* eval_tasks: returns [task_hist, task_counters, log].
eval_tasks(dets_df, rois, t_sec, asset_roles, task_hist, task_counters) ==
  EvalTasksFrom(1, [task_hist |-> task_hist, task_counters |-> task_counters,
                    log |-> << >>],
                dets_df, rois, t_sec, asset_roles)

\* ---------------------------------------------------------------- alerts
sev_rank(severity) ==
  CASE severity = "INFO"     -> 0
    [] severity = "WARNING"  -> 1
    [] severity = "CRITICAL" -> 2
    [] OTHER                 -> 0

AlertItem(alert_id, severity, rule_id, message, first_seen, last_seen) ==
  [ alert_id |-> alert_id, severity |-> severity, rule_id |-> rule_id,
    message |-> message, first_seen |-> first_seen, last_seen |-> last_seen,
    status |-> "OPEN" ]

\* _upsert_alert with the stored severity replaced by the new one on every
\* call on an existing id.
_upsert_alert_overwrite(alerts, alert_id, severity, rule_id, message, now_t) ==
  IF alert_id \notin DOMAIN alerts
    THEN [ alerts |-> Put(alerts, alert_id,
                          AlertItem(alert_id, severity, rule_id, message, now_t, now_t)),
           log    |-> << LogEvent("alert", now_t, <<severity>> \o message) >> ]
    ELSE [ alerts |-> Put(alerts, alert_id,
                          [alerts[alert_id] EXCEPT !.last_seen = now_t,
                                                   !.severity = severity,
                                                   !.message = message]),
           log    |-> << >> ]

\* _upsert_alert (rules_engine.py and, with the same body, app.py):
\* returns the alert store and the events logged.
_upsert_alert(alerts, alert_id, severity, rule_id, message, now_t) ==
  IF alert_id \notin DOMAIN alerts
    THEN [ alerts |-> Put(alerts, alert_id,
                          AlertItem(alert_id, severity, rule_id, message, now_t, now_t)),
           log    |-> << LogEvent("alert", now_t, <<severity>> \o message) >> ]
    ELSE LET a  == alerts[alert_id]
             a1 == [a EXCEPT !.last_seen = now_t,
                             !.severity  = IF sev_rank(severity) > sev_rank(a.severity)
                                             THEN severity ELSE a.severity,
                             !.message   = message]
         IN [ alerts |-> Put(alerts, alert_id, a1), log |-> << >> ]

_close_alert(alerts, alert_id, now_t) ==
  IF alert_id \notin DOMAIN alerts THEN alerts
  ELSE Put(alerts, alert_id,
           [alerts[alert_id] EXCEPT !.last_seen = now_t, !.status = "CLOSED"])

\* alerts.get(alert_id)
NoneAlert == [status |-> "None"]

GetAlert(store, alert_id) ==
  IF alert_id \in DOMAIN store THEN store[alert_id] ELSE NoneAlert

\* The three safety rules of compute_alerts_df, in source order.
SafetyRules ==
  << [task |-> "safety_engine_clear", alert_id |-> "engine_zone_not_clear",
      severity |-> "CRITICAL",
      message |-> <<"DANGER: Person detected in Engine ROI! Engine zone NOT clear.">>],
     [task |-> "safety_pushback_clear", alert_id |-> "pushback_area_not_clear",
      severity |-> "WARNING",
      message |-> <<"WARNING: Person detected in Pushback ROI! Area NOT clear.">>],
     [task |-> "safety_airside_presence", alert_id |-> "airside_person_present",
      severity |-> "INFO",
      message |-> <<"Person detected airside (within Aircraft ROI). Normal during turnaround.">>] >>

\* task_hist.get(key, {}).get("status")
StatusOrNone(task_hist, key) ==
  IF key \in DOMAIN task_hist THEN task_hist[key].status ELSE "None"

ApplySafetyRule(st, rule, now_t, task_hist) ==
  IF StatusOrNone(task_hist, rule.task) = "ACTIVE"
    THEN LET r == _upsert_alert(st.alerts, rule.alert_id, rule.severity,
                                rule.task, rule.message, now_t)
         IN [alerts |-> r.alerts, log |-> st.log \o r.log]
    ELSE [alerts |-> _close_alert(st.alerts, rule.alert_id, now_t), log |-> st.log]

\* compute_alerts_df, the part that writes the alert store:
\* returns [alerts, log].
\* sev_order.get(s, 0) of the read view.
sev_order(s) ==
  CASE s = "CRITICAL" -> 2
    [] s = "WARNING" -> 1
    [] OTHER -> 0

\* One row of the read view.
AlertRow(a) ==
  [t_first |-> a.first_seen, t_last |-> a.last_seen, severity |-> a.severity,
   rule |-> a.rule_id, message |-> a.message, id |-> a.alert_id]

\* The rows collected from alerts.values(): entries that are not OPEN are
\* skipped.
OpenRows(alerts) ==
  { AlertRow(alerts[k]) : k \in { i \in DOMAIN alerts : alerts[i].status = "OPEN" } }

RowBefore_oldest_first(r1, r2) ==
  \/ sev_order(r1.severity) > sev_order(r2.severity)
  \/ /\ sev_order(r1.severity) = sev_order(r2.severity)
     /\ r1.t_last < r2.t_last

\* sort_values(["_sev", "t_last"], ascending=[False, False]): r1 sorts
\* strictly before r2.
RowBefore(r1, r2) ==
  \/ sev_order(r1.severity) > sev_order(r2.severity)
  \/ /\ sev_order(r1.severity) = sev_order(r2.severity)
     /\ r1.t_last > r2.t_last

\* The sorted frame as a sequence of rows.  Rows equal in both sort keys
\* keep the order of the store in the code; the store is modelled without
\* an order, so their relative order here is a fixed arbitrary one.
RECURSIVE SortRows(_)
SortRows(rows) ==
  IF rows = {} THEN << >>
  ELSE LET top == CHOOSE r \in rows : \A o \in rows : ~RowBefore(o, r)
       IN << top >> \o SortRows(rows \ { top })

compute_alerts_df(now_t, task_hist, alerts) ==
  LET s0 == [alerts |-> alerts, log |-> << >>]
      s1 == ApplySafetyRule(s0, SafetyRules[1], now_t, task_hist)
      s2 == ApplySafetyRule(s1, SafetyRules[2], now_t, task_hist)
      s3 == ApplySafetyRule(s2, SafetyRules[3], now_t, task_hist)
  IN [alerts |-> s3.alerts, log |-> s3.log,
      view |-> SortRows(OpenRows(s3.alerts))]

\* ------------------------------------------------- turnaround_sequence.py
StepSpec(key, title, deadline_sec, requires_done) ==
  [key |-> key, title |-> title, deadline_sec |-> deadline_sec,
   requires_done |-> requires_done]

default_sequence ==
  << StepSpec("passenger_deboarding", "Passenger Deboarding", 180, << >>),
     StepSpec("gpu", "GPU connected", 120, << >>),
     StepSpec("fueling", "Fueling", NoneT, <<"gpu">>),
     StepSpec("baggage", "Baggage unloading/loading", NoneT, <<"gpu">>),
     StepSpec("passenger_boarding", "Passenger Boarding", NoneT, <<"baggage">>),
     StepSpec("pushback", "Pushback", NoneT,
              <<"fueling", "baggage", "passenger_boarding">>) >>

StepKeys == {default_sequence[i].key : i \in DOMAIN default_sequence}

\* SequenceState(): current_idx 0, no starts, no dones, no dashboard steps.
NewSequenceState ==
  [current_idx |-> 0, started_at |-> EmptyDict, done_at |-> EmptyDict,
   steps |-> << >>]

_status(task_hist, key) ==
  IF key \in DOMAIN task_hist THEN task_hist[key].status ELSE "NOT_STARTED"

_is_active(task_hist, key) ==
  _status(task_hist, key) \in {"ACTIVE", "STARTED", "ONGOING", "OPERATING", "CONNECTED"}

_is_inactive(task_hist, key) == _status(task_hist, key) = "INACTIVE"

_is_done(task_hist, key) == _status(task_hist, key) = "DONE"

\* Returns [task_hist, seq_state].
_mark_done(task_hist, key, now_t, seq_state) ==
  LET th0 == _ensure_task(task_hist, key) IN
  [ task_hist |-> Put(th0, key, [th0[key] EXCEPT !.status = "DONE", !.since = now_t]),
    seq_state |-> [seq_state EXCEPT !.done_at = Put(@, key, now_t)] ]

\* The prerequisites of a step that are not DONE, in requires_done order.
Missing(step, task_hist, seq_state) ==
  SelectSeq(step.requires_done,
            LAMBDA k : k \notin DOMAIN seq_state.done_at /\ ~_is_done(task_hist, k))

\* TrackStart with the out-of-order alert raised on every tick the step is
\* active with a prerequisite missing.
TrackStart_repeat(st, step, now_t) ==
  IF _is_active(st.task_hist, step.key)
    THEN LET ss == IF step.key \in DOMAIN st.seq_state.started_at
                     THEN st.seq_state
                     ELSE [st.seq_state EXCEPT !.started_at = Put(@, step.key, now_t)]
             missing == Missing(step, st.task_hist, ss)
         IN IF missing # << >>
              THEN LET r == _upsert_alert(st.alerts, "seq_out_of_order_" \o step.key,
                                          "WARNING", "sequence_order",
                                          <<step.title, "started before prerequisites DONE:">>
                                            \o missing,
                                          now_t)
                   IN [st EXCEPT !.seq_state = ss, !.alerts = r.alerts,
                                 !.log = @ \o r.log]
              ELSE [st EXCEPT !.seq_state = ss]
    ELSE st

\* 1) Track starts + out-of-order checks, for one step.  st is the record
\* [task_hist, seq_state, alerts, log]; alert is app.py's _upsert_alert.
TrackStart(st, step, now_t) ==
  IF _is_active(st.task_hist, step.key) /\ step.key \notin DOMAIN st.seq_state.started_at
    THEN LET ss == [st.seq_state EXCEPT !.started_at = Put(@, step.key, now_t)]
             missing == Missing(step, st.task_hist, ss)
         IN IF missing # << >>
              THEN LET r == _upsert_alert(st.alerts, "seq_out_of_order_" \o step.key,
                                          "WARNING", "sequence_order",
                                          <<step.title, "started before prerequisites DONE:">>
                                            \o missing,
                                          now_t)
                   IN [st EXCEPT !.seq_state = ss, !.alerts = r.alerts,
                                 !.log = @ \o r.log]
              ELSE [st EXCEPT !.seq_state = ss]
    ELSE st

\* MarkDoneStep without the test of the time since the start.
MarkDoneStep_no_wait(st, step, now_t, min_active_sec_for_done) ==
  IF /\ step.key \in DOMAIN st.seq_state.started_at
     /\ step.key \notin DOMAIN st.seq_state.done_at
     /\ ~_is_done(st.task_hist, step.key)
     /\ _is_inactive(st.task_hist, step.key)
    THEN LET r == _mark_done(st.task_hist, step.key, now_t, st.seq_state)
         IN [st EXCEPT !.task_hist = r.task_hist, !.seq_state = r.seq_state]
    ELSE st

\* 2) Mark DONE (heuristic), for one step.
MarkDoneStep(st, step, now_t, min_active_sec_for_done) ==
  IF /\ step.key \in DOMAIN st.seq_state.started_at
     /\ step.key \notin DOMAIN st.seq_state.done_at
     /\ ~_is_done(st.task_hist, step.key)
     /\ _is_inactive(st.task_hist, step.key)
     /\ now_t - st.seq_state.started_at[step.key] >= min_active_sec_for_done
    THEN LET r == _mark_done(st.task_hist, step.key, now_t, st.seq_state)
         IN [st EXCEPT !.task_hist = r.task_hist, !.seq_state = r.seq_state]
    ELSE st

\* DeadlineStep without the test that the step has not started.
DeadlineStep_started(st, step, now_t) ==
  IF step.deadline_sec = NoneT THEN st
  ELSE IF now_t >= step.deadline_sec
    THEN LET r == _upsert_alert(st.alerts, "seq_deadline_" \o step.key,
                                "WARNING", "sequence_deadline",
                                <<step.title, "not started by t=", ToString(step.deadline_sec)>>,
                                now_t)
         IN [st EXCEPT !.alerts = r.alerts, !.log = @ \o r.log]
  ELSE st

\* 3) Deadline checks, for one step.
DeadlineStep(st, step, now_t) ==
  IF step.deadline_sec = NoneT THEN st
  ELSE IF step.key \in DOMAIN st.seq_state.started_at THEN st
  ELSE IF now_t >= step.deadline_sec
    THEN LET r == _upsert_alert(st.alerts, "seq_deadline_" \o step.key,
                                "WARNING", "sequence_deadline",
                                <<step.title, "not started by t=", ToString(step.deadline_sec)>>,
                                now_t)
         IN [st EXCEPT !.alerts = r.alerts, !.log = @ \o r.log]
  ELSE st

\* The three "for step in seq" loops, from step i on.
RECURSIVE TrackStartsFrom(_, _, _)
TrackStartsFrom(i, st, now_t) ==
  IF i > Len(default_sequence) THEN st
  ELSE TrackStartsFrom(i + 1, TrackStart(st, default_sequence[i], now_t), now_t)

RECURSIVE MarkDoneFrom(_, _, _, _)
MarkDoneFrom(i, st, now_t, min_active_sec_for_done) ==
  IF i > Len(default_sequence) THEN st
  ELSE MarkDoneFrom(i + 1,
                    MarkDoneStep(st, default_sequence[i], now_t, min_active_sec_for_done),
                    now_t, min_active_sec_for_done)

RECURSIVE DeadlinesFrom(_, _, _)
DeadlinesFrom(i, st, now_t) ==
  IF i > Len(default_sequence) THEN st
  ELSE DeadlinesFrom(i + 1, DeadlineStep(st, default_sequence[i], now_t), now_t)

\* The pointer recomputed on every call as the number of leading DONE steps.
AdvancePointer_rescan(idx, task_hist, seq_state) ==
  LET open == { i \in 1 .. Len(default_sequence) :
                  ~(\/ default_sequence[i].key \in DOMAIN seq_state.done_at
                    \/ _is_done(task_hist, default_sequence[i].key)) }
  IN IF open = {} THEN Len(default_sequence)
     ELSE (CHOOSE i \in open : \A j \in open : i <= j) - 1

\* 4) Advance pointer: the index the while loop stops at.
RECURSIVE AdvancePointer(_, _, _)
AdvancePointer(idx, task_hist, seq_state) ==
  IF idx < Len(default_sequence)
    THEN LET k == default_sequence[idx + 1].key IN
         IF k \in DOMAIN seq_state.done_at \/ _is_done(task_hist, k)
           THEN AdvancePointer(idx + 1, task_hist, seq_state)
           ELSE idx
    ELSE idx

\* update_sequence with alert = app.py's _upsert_alert on the session's
\* alert store: returns [task_hist, seq_state, alerts, log].
update_sequence(now_t, task_hist, seq_state, alerts, min_active_sec_for_done) ==
  LET s0 == [task_hist |-> task_hist, seq_state |-> seq_state, alerts |-> alerts,
             log |-> << >>]
      s1 == TrackStartsFrom(1, s0, now_t)
      s2 == MarkDoneFrom(1, s1, now_t, min_active_sec_for_done)
      s3 == DeadlinesFrom(1, s2, now_t)
      idx == AdvancePointer(s3.seq_state.current_idx, s3.task_hist, s3.seq_state)
  IN [s3 EXCEPT !.seq_state.current_idx = idx,
                !.seq_state.steps = [i \in DOMAIN default_sequence |->
                                       [key |-> default_sequence[i].key,
                                        title |-> default_sequence[i].title]]]

\* ----------------------------------------------------- passenger_flow.py
deboarding_timeout == 50

boarding_timeout == 10

NewPassengerFlowState ==
  [ person_positions |-> EmptyDict,
    left_to_right_count |-> 0, right_to_left_count |-> 0,
    last_deboarding_detection |-> NoneT,
    last_boarding_detection |-> NoneT,
    last_ground_staff_detection |-> NoneT,
    deboarding_started |-> FALSE,
    boarding_started |-> FALSE,
    ground_staff_prep_done |-> FALSE ]

\* sum(x_changes) over consecutive samples of recent, on doubled x.
RECURSIVE SumXChanges(_, _)
SumXChanges(recent, i) ==
  IF i > Len(recent) THEN 0
  ELSE (recent[i][1] - recent[i - 1][1]) + SumXChanges(recent, i + 1)

\* avg_change > 5.0 is sum > 5 * n; on doubled x, sum2 > 10 * n.
_detect_movement_direction(positions) ==
  LET min_samples == 3 IN
  IF Len(positions) < min_samples THEN "None"
  ELSE LET recent == SubSeq(positions, Len(positions) - min_samples + 1, Len(positions))
           n      == Len(recent) - 1
           sum2   == SumXChanges(recent, 2)
       IN IF sum2 > 10 * n THEN "left_to_right"
          ELSE IF sum2 < -(10 * n) THEN "right_to_left"
          ELSE "None"

\* _get_centroid, doubled.
_get_centroid(bbox) == <<bbox[1] + bbox[3], bbox[2] + bbox[4]>>

\* _in_roi of passenger_flow.py.
_in_roi_passenger_flow(bbox, roi) ==
  LET c == _get_centroid(bbox) IN
    (2 * roi[1] <= c[1] /\ c[1] <= 2 * roi[3])
    /\ (2 * roi[2] <= c[2] /\ c[2] <= 2 * roi[4])

\* people_in_roi: the rows of class person centred in the ROI, in row order.
PeopleInRoi(dets_df, roi) ==
  SelectSeq(dets_df, LAMBDA d : d.cls_name = "person"
                                /\ _in_roi_passenger_flow(d.bbox, roi))

\* "Update position history", from row i of people_in_roi on.
RECURSIVE AppendPositions(_, _, _, _)
AppendPositions(pp, people, i, t_sec) ==
  IF i > Len(people) THEN pp
  ELSE LET tid  == people[i].track_id
           c    == Centroid2(people[i].bbox)
           hist == Append(Get(pp, tid, << >>), <<c[1], c[2], t_sec>>)
           kept == IF Len(hist) > 10 THEN SubSeq(hist, Len(hist) - 9, Len(hist)) ELSE hist
       IN AppendPositions(Put(pp, tid, kept), people, i + 1, t_sec)

\* "Clean up old tracks (not seen for 5 seconds)".
PruneOld(pp, current_tracks, t_sec) ==
  LET to_remove == {tid \in DOMAIN pp :
                      /\ tid \notin current_tracks
                      /\ pp[tid] # << >>
                      /\ t_sec - pp[tid][Len(pp[tid])][3] > 5}
  IN [tid \in (DOMAIN pp) \ to_remove |-> pp[tid]]

FlowResult(gs, deb, brd) ==
  [ground_staff_prep |-> gs, passenger_deboarding |-> deb, passenger_boarding |-> brd]

\* update_passenger_flow: returns [result, state] and the two counts of the
\* tick (left_to_right, right_to_left).
update_passenger_flow(dets_df, roi_passenger_door, t_sec, state) ==
  IF roi_passenger_door = NoneRoi \/ dets_df = << >>
    THEN [result |-> FlowResult("NOT_STARTED", "NOT_STARTED", "NOT_STARTED"),
          state |-> state, left_to_right |-> 0, right_to_left |-> 0]
  ELSE
    LET people == PeopleInRoi(dets_df, roi_passenger_door)
        current_tracks == {people[i].track_id : i \in DOMAIN people}
        pp == PruneOld(AppendPositions(state.person_positions, people, 1, t_sec),
                       current_tracks, t_sec)
        left_to_right == Cardinality({tid \in current_tracks :
            _detect_movement_direction(Get(pp, tid, << >>)) = "left_to_right"})
        right_to_left == Cardinality({tid \in current_tracks :
            _detect_movement_direction(Get(pp, tid, << >>)) = "right_to_left"})
        \* Update flow counters
        last_deb == IF left_to_right > 0 THEN t_sec ELSE state.last_deboarding_detection
        last_brd == IF right_to_left > 0 /\ state.deboarding_started
                      THEN t_sec ELSE state.last_boarding_detection
        last_gs  == IF right_to_left > 0 /\ ~state.deboarding_started
                      THEN t_sec ELSE state.last_ground_staff_detection
        \* GROUND STAFF PREPARATION
        gs_open  == ~state.deboarding_started /\ ~state.ground_staff_prep_done
        gs_done  == IF gs_open /\ last_gs # NoneT /\ t_sec - last_gs > 10
                      THEN TRUE ELSE state.ground_staff_prep_done
        gs_res   == IF gs_open
                      THEN IF last_gs # NoneT
                             THEN IF t_sec - last_gs > 10 THEN "DONE" ELSE "ONGOING"
                             ELSE "NOT_STARTED"
                      ELSE IF state.ground_staff_prep_done THEN "DONE" ELSE "NOT_STARTED"
        \* PASSENGER DEBOARDING
        deb_started == IF last_deb # NoneT THEN TRUE ELSE state.deboarding_started
        deb_res  == IF last_deb # NoneT
                      THEN IF ~state.deboarding_started THEN "STARTED"
                           ELSE IF t_sec - last_deb < deboarding_timeout
                             THEN "ONGOING" ELSE "DONE"
                      ELSE "NOT_STARTED"
        \* PASSENGER BOARDING
        deboarding_done == last_deb # NoneT /\ t_sec - last_deb >= deboarding_timeout
        brd_now  == /\ deboarding_done /\ last_brd # NoneT
                    /\ ~state.boarding_started
                    /\ t_sec - last_brd >= boarding_timeout
        brd_res  == IF deboarding_done /\ last_brd # NoneT
                      THEN IF ~state.boarding_started
                             THEN IF brd_now THEN "STARTED" ELSE "NOT_STARTED"
                             ELSE "ONGOING"
                      ELSE "NOT_STARTED"
    IN [ result |-> FlowResult(gs_res, deb_res, brd_res),
         state  |-> [state EXCEPT
                       !.person_positions = pp,
                       !.last_deboarding_detection = last_deb,
                       !.last_boarding_detection = last_brd,
                       !.last_ground_staff_detection = last_gs,
                       !.ground_staff_prep_done = gs_done,
                       !.deboarding_started = deb_started,
                       !.boarding_started = IF brd_now THEN TRUE ELSE @],
         left_to_right |-> left_to_right, right_to_left |-> right_to_left ]

\* ------------------------------------------------- fingerdock_detection.py
NoneP == << >>

NewFingerdockState ==
  [ status |-> "NOT_CONNECTED", first_detected |-> NoneT, connected_at |-> NoneT,
    last_position |-> NoneP, last_position_time |-> NoneT, is_moving |-> FALSE ]

\* _in_roi of fingerdock_detection.py.
_in_roi_fingerdock(bbox, roi) ==
  LET cx2 == bbox[1] + bbox[3]
      cy2 == bbox[2] + bbox[4]
  IN (2 * roi[1] <= cx2 /\ cx2 <= 2 * roi[3])
     /\ (2 * roi[2] <= cy2 /\ cy2 <= 2 * roi[4])

\* The rows of class truck, bus or train centred in the ROI, in row order.
DockCandidates(dets_df, roi) ==
  SelectSeq(dets_df, LAMBDA d : d.cls_name \in {"truck", "bus", "train"}
                                /\ _in_roi_fingerdock(d.bbox, roi))

\* distance > 15.0 is dx^2 + dy^2 > 225; on doubled coordinates, > 900.
MovedBeyondThreshold(p, q) ==
  (p[1] - q[1]) * (p[1] - q[1]) + (p[2] - q[2]) * (p[2] - q[2]) > 4 * (15 * 15)

\* detect_fingerdock: returns the state after the call; the value returned
\* by the function is its status field.
detect_fingerdock(dets_df, roi_fingerdock, t_sec, state) ==
  IF roi_fingerdock = NoneRoi \/ dets_df = << >> THEN state
  ELSE LET cand == DockCandidates(dets_df, roi_fingerdock) IN
    IF cand = << >>
      THEN IF state.status = "CONNECTED" THEN state
           ELSE [state EXCEPT !.status = "NOT_CONNECTED"]
    ELSE LET current_position == Centroid2(cand[1].bbox) IN
      IF state.first_detected = NoneT
        THEN [state EXCEPT !.first_detected = t_sec,
                           !.last_position = current_position,
                           !.last_position_time = t_sec,
                           !.status = "NOT_CONNECTED"]
      ELSE IF state.last_position = NoneP THEN state
      ELSE IF MovedBeyondThreshold(current_position, state.last_position)
        THEN [state EXCEPT !.is_moving = TRUE, !.status = "OPERATING",
                           !.last_position = current_position,
                           !.last_position_time = t_sec]
      ELSE IF state.is_moving /\ state.last_position_time # NoneT
        THEN IF t_sec - state.last_position_time >= 10
               THEN [state EXCEPT !.status = "CONNECTED", !.is_moving = FALSE,
                                  !.connected_at = IF @ = NoneT THEN t_sec ELSE @]
               ELSE [state EXCEPT !.status = "OPERATING"]
      ELSE IF state.status = "NOT_CONNECTED"
        THEN IF t_sec - state.first_detected >= 15
               THEN [state EXCEPT !.status = "CONNECTED",
                                  !.connected_at = IF @ = NoneT THEN t_sec ELSE @]
               ELSE state
      ELSE state

\* ---------------------------------------------------------------- infer.py
\* _iou as the fraction <<inter, union>> (<<0, 1>> for 0.0); fractions are
\* compared by cross-multiplication, their denominators being positive.
Max2(a, b) == IF a >= b THEN a ELSE b

Min2(a, b) == IF a <= b THEN a ELSE b

_iou_sum_of_areas(a, b) ==
  LET inter_x1 == Max2(a[1], b[1])
      inter_y1 == Max2(a[2], b[2])
      inter_x2 == Min2(a[3], b[3])
      inter_y2 == Min2(a[4], b[4])
      inter    == (inter_x2 - inter_x1) * (inter_y2 - inter_y1)
      area_a   == (a[3] - a[1]) * (a[4] - a[2])
      area_b   == (b[3] - b[1]) * (b[4] - b[2])
      union    == area_a + area_b
  IN IF inter_x2 <= inter_x1 \/ inter_y2 <= inter_y1 THEN <<0, 1>>
     ELSE IF union <= 0 THEN <<0, 1>>
     ELSE <<inter, union>>

_iou(a, b) ==
  LET inter_x1 == Max2(a[1], b[1])
      inter_y1 == Max2(a[2], b[2])
      inter_x2 == Min2(a[3], b[3])
      inter_y2 == Min2(a[4], b[4])
      inter    == (inter_x2 - inter_x1) * (inter_y2 - inter_y1)
      area_a   == (a[3] - a[1]) * (a[4] - a[2])
      area_b   == (b[3] - b[1]) * (b[4] - b[2])
      union    == area_a + area_b - inter
  IN IF inter_x2 <= inter_x1 \/ inter_y2 <= inter_y1 THEN <<0, 1>>
     ELSE IF union <= 0 THEN <<0, 1>>
     ELSE <<inter, union>>

FracGt(p, q) == p[1] * q[2] > q[1] * p[2]

\* FracGe with a strict comparison.
FracGe_strict(p, q) == p[1] * q[2] > q[1] * p[2]

FracGe(p, q) == p[1] * q[2] >= q[1] * p[2]

\* "only match same class", with the test dropped.
SameClass_any(tr, det) == TRUE

\* "only match same class"
SameClass(tr, det) == tr.cls_name = det.cls_name

\* The carry-over test, one tick early.
Carried_early(tr, max_missed) == tr.missed + 1 < max_missed

\* tr["missed"] += 1; if tr["missed"] <= self.max_missed
Carried(tr, max_missed) == tr.missed + 1 <= max_missed

\* SimpleIoUTracker(iou_match, max_missed): tracks is the dict in insertion
\* order, each entry [tid, bbox, missed, cls_name].
NewTracker(iou_match, max_missed) ==
  [iou_match |-> iou_match, max_missed |-> max_missed, next_id |-> 1, tracks |-> << >>]

NoneId == 0

\* The inner loop "for tid, tr in self.tracks.items()" from entry i on:
\* best is [id, iou].
RECURSIVE BestTrackFrom(_, _, _, _, _, _)
BestTrackFrom(i, tracks, used, det, iou_match, best) ==
  IF i > Len(tracks) THEN best
  ELSE LET tr == tracks[i]
           v  == _iou(det.bbox, tr.bbox)
       IN IF tr.tid \in used \/ ~SameClass(tr, det)
            THEN BestTrackFrom(i + 1, tracks, used, det, iou_match, best)
          ELSE IF FracGt(v, best.iou) /\ FracGe(v, iou_match)
            THEN BestTrackFrom(i + 1, tracks, used, det, iou_match,
                               [id |-> tr.tid, iou |-> v])
          ELSE BestTrackFrom(i + 1, tracks, used, det, iou_match, best)

TrackEntry(tid, det) ==
  [tid |-> tid, bbox |-> det.bbox, missed |-> 0, cls_name |-> det.cls_name]

\* The loop "for det in detections" from detection i on: st is
\* [updated, used, next_id, out].
RECURSIVE MatchFrom(_, _, _, _)
MatchFrom(i, detections, tracker, st) ==
  IF i > Len(detections) THEN st
  ELSE LET det  == detections[i]
           best == BestTrackFrom(1, tracker.tracks, st.used, det, tracker.iou_match,
                                 [id |-> NoneId, iou |-> <<0, 1>>])
       IN IF best.id = NoneId
            THEN MatchFrom(i + 1, detections, tracker,
                   [updated |-> Append(st.updated, TrackEntry(st.next_id, det)),
                    used    |-> st.used,
                    next_id |-> st.next_id + 1,
                    out     |-> Append(st.out, [det EXCEPT !.track_id = st.next_id])])
            ELSE MatchFrom(i + 1, detections, tracker,
                   [updated |-> Append(st.updated, TrackEntry(best.id, det)),
                    used    |-> st.used \cup {best.id},
                    next_id |-> st.next_id,
                    out     |-> Append(st.out, [det EXCEPT !.track_id = best.id])])

TrackIds(tracks) == { tracks[i].tid : i \in DOMAIN tracks }

\* "carry over unmatched tracks for a few frames", from entry i on.
RECURSIVE CarryFrom(_, _, _, _)
CarryFrom(i, tracks, max_missed, updated) ==
  IF i > Len(tracks) THEN updated
  ELSE LET tr == tracks[i] IN
       IF tr.tid \in TrackIds(updated)
         THEN CarryFrom(i + 1, tracks, max_missed, updated)
       ELSE IF Carried(tr, max_missed)
         THEN CarryFrom(i + 1, tracks, max_missed,
                        Append(updated, [tr EXCEPT !.missed = tr.missed + 1]))
       ELSE CarryFrom(i + 1, tracks, max_missed, updated)

\* SimpleIoUTracker.update: returns the tracker and the detections with
\* their track_id filled in.
TrackerUpdate(tracker, detections) ==
  LET st == MatchFrom(1, detections, tracker,
                      [updated |-> << >>, used |-> {}, next_id |-> tracker.next_id,
                       out |-> << >>])
  IN [ tracker |-> [tracker EXCEPT
                      !.next_id = st.next_id,
                      !.tracks  = CarryFrom(1, tracker.tracks, tracker.max_missed,
                                            st.updated)],
       detections |-> st.out ]

\* ------------------------------------------------------ app.py, role hand-off
\* _bbox_iou as the fraction <<inter, union>> (<<0, 1>> for 0.0).
_bbox_iou(a, b) ==
  LET inter_x1 == Max2(a[1], b[1])
      inter_y1 == Max2(a[2], b[2])
      inter_x2 == Min2(a[3], b[3])
      inter_y2 == Min2(a[4], b[4])
      inter    == (inter_x2 - inter_x1) * (inter_y2 - inter_y1)
      area_a   == Max2(1, a[3] - a[1]) * Max2(1, a[4] - a[2])
      area_b   == Max2(1, b[3] - b[1]) * Max2(1, b[4] - b[2])
      union    == area_a + area_b - inter
  IN IF inter_x2 <= inter_x1 \/ inter_y2 <= inter_y1 THEN <<0, 1>>
     ELSE IF union > 0 THEN <<inter, union>> ELSE <<0, 1>>

_vehicles_df(dets_df) ==
  SelectSeq(dets_df, LAMBDA d : d.cls_name \in {"truck", "car", "bus", "train"})

\* role_memory is the sequence of its items in dict order, each
\* [role, track_id, bbox, last_seen].  The position of a role, 0 if absent.
MemIndex(role_memory, role) ==
  IF \E i \in DOMAIN role_memory : role_memory[i].role = role
    THEN CHOOSE i \in DOMAIN role_memory : role_memory[i].role = role
    ELSE 0

\* role_memory[role] = {"track_id": .., "bbox": .., "last_seen": ..}
MemPut(role_memory, role, track_id, bbox, last_seen) ==
  LET e == [role |-> role, track_id |-> track_id, bbox |-> bbox,
            last_seen |-> last_seen]
      i == MemIndex(role_memory, role)
  IN IF i = 0 THEN Append(role_memory, e) ELSE [role_memory EXCEPT ![i] = e]

\* by_tid[tid]: the bbox of the last row of veh with this track id.
BboxOfTid(veh, tid) ==
  LET i == CHOOSE k \in DOMAIN veh :
             /\ veh[k].track_id = tid
             /\ \A j \in DOMAIN veh : veh[j].track_id = tid => j <= k
  IN veh[i].bbox

\* "for tid, role in list(asset_roles.items())", from position i of order on.
\* order lists the keys of asset_roles in the order of the dict.
RECURSIVE UpdateMemoryFrom(_, _, _, _, _, _)
UpdateMemoryFrom(i, order, veh, now_t, asset_roles, role_memory) ==
  IF i > Len(order) THEN role_memory
  ELSE LET tid  == order[i]
           role == asset_roles[tid]
           seen == \E k \in DOMAIN veh : veh[k].track_id = tid
       IN UpdateMemoryFrom(i + 1, order, veh, now_t, asset_roles,
            IF role # "UNASSIGNED" /\ seen
              THEN MemPut(role_memory, role, tid, BboxOfTid(veh, tid), now_t)
              ELSE role_memory)

\* _update_role_memory: returns role_memory.
_update_role_memory(dets_df, now_t, asset_roles, role_memory, order) ==
  LET veh == _vehicles_df(dets_df) IN
  IF veh = << >> THEN role_memory
  ELSE UpdateMemoryFrom(1, order, veh, now_t, asset_roles, role_memory)

\* The defaults iou_thr = 0.20 and max_age_sec = 8.0 of _role_handoff.
iou_thr == <<1, 5>>

max_age_sec == 8

NoBest == [iou |-> <<0, 1>>, tid |-> NoneId, bbox |-> << >>]

\* "for _, r in cand.iterrows()": the first candidate of greatest IoU > 0.
RECURSIVE BestCandFrom(_, _, _, _)
BestCandFrom(i, cand, mem_bbox, best) ==
  IF i > Len(cand) THEN best
  ELSE LET v == _bbox_iou(mem_bbox, cand[i].bbox)
       IN BestCandFrom(i + 1, cand, mem_bbox,
            IF FracGt(v, best.iou)
              THEN [iou |-> v, tid |-> cand[i].track_id, bbox |-> cand[i].bbox]
              ELSE best)

\* One iteration of "for role, mem in list(role_memory.items())" on the
\* record [asset_roles, role_memory, log].
HandoffOne(st, mem, cand, present_roles, now_t) ==
  IF \/ mem.role \in {"UNASSIGNED", "OTHER"}
     \/ mem.role \in present_roles
     \/ now_t - mem.last_seen > max_age_sec
    THEN st
  ELSE LET best == BestCandFrom(1, cand, mem.bbox, NoBest) IN
    IF best.tid # NoneId /\ FracGe(best.iou, iou_thr)
      THEN LET old_tid == mem.track_id
               kept == IF /\ old_tid \in DOMAIN st.asset_roles
                          /\ st.asset_roles[old_tid] = mem.role
                         THEN Del(st.asset_roles, old_tid)
                         ELSE st.asset_roles
           IN [ asset_roles |-> Put(kept, best.tid, mem.role),
                role_memory |-> MemPut(st.role_memory, mem.role, best.tid,
                                       best.bbox, now_t),
                log |-> Append(st.log,
                               LogEvent("info", now_t,
                                        <<"Role handoff", mem.role,
                                          ToString(old_tid), ToString(best.tid)>>)) ]
      ELSE st

RECURSIVE HandoffFrom(_, _, _, _, _, _)
HandoffFrom(i, items, st, cand, present_roles, now_t) ==
  IF i > Len(items) THEN st
  ELSE HandoffFrom(i + 1, items,
                   HandoffOne(st, items[i], cand, present_roles, now_t),
                   cand, present_roles, now_t)

\* _role_handoff: returns [asset_roles, role_memory, log].
_role_handoff(dets_df, now_t, asset_roles, role_memory) ==
  LET st0 == [asset_roles |-> asset_roles, role_memory |-> role_memory,
              log |-> << >>]
      veh == _vehicles_df(dets_df)
      present_tids  == { veh[k].track_id : k \in DOMAIN veh }
      present_roles == { Get(asset_roles, tid, "UNASSIGNED") : tid \in present_tids }
                         \ { "UNASSIGNED" }
      assigned_tids == { tid \in DOMAIN asset_roles : asset_roles[tid] # "UNASSIGNED" }
      cand == SelectSeq(veh, LAMBDA d : d.track_id \notin assigned_tids)
  IN IF role_memory = << >> \/ veh = << >> \/ cand = << >> THEN st0
     ELSE HandoffFrom(1, role_memory, st0, cand, present_roles, now_t)

\* ----------------------------------------------------------------- app.py
VARIABLES
  pc,                    \* the position of the script within its run on a frame
  frames,                \* the frames folder: its length and what its frames show
  playback_idx,          \* st.session_state.playback_idx: the frame of the next run
  t_sec,                 \* st.session_state.t_sec: the time of the frame being run
  dets_df,               \* the tracked detections of the frame being run
  rois,                  \* the ROIs parsed from the sidebar
  asset_roles,           \* track_id -> role
  task_hist,             \* task key -> [status, since, last_seen]
  task_counters,         \* task key -> last_seen
  alerts,                \* alert_id -> AlertItem
  seq_state,             \* SequenceState
  passenger_flow_state,  \* PassengerFlowState
  fingerdock_state,      \* FingerdockState
  event_log,             \* the events the last step appended to the event log
  streak,                \* history: task key -> consecutive true / false observations
  last_op,               \* history: the last call made on the alert store or tracker
  tracker,               \* st.session_state.tracker
  flow_signals,          \* history: the ticks of the run with a direction signal
  role_memory            \* st.session_state.role_memory, in insertion order

vars == << pc, frames, playback_idx, t_sec, dets_df, rois, asset_roles, task_hist,
           task_counters, alerts, seq_state, passenger_flow_state,
           fingerdock_state, event_log, streak, last_op, tracker, flow_signals, role_memory >>

seq_done_sensitivity == 6

\* "Update task_hist with passenger flow statuses" and "... with fingerdock
\* status": one key.  Returns [task_hist, log].
WriteFlowStatus(th, task_key, status, now_t) ==
  IF task_key \in DOMAIN th
    THEN LET changed == th[task_key].status # status
             h == IF changed
                    THEN [th[task_key] EXCEPT !.status = status, !.since = now_t]
                    ELSE th[task_key]
         IN [ task_hist |-> Put(th, task_key, [h EXCEPT !.last_seen = now_t]),
              log |-> IF changed
                        THEN << LogEvent("task", now_t, <<task_key, "=>", status>>) >>
                        ELSE << >> ]
    ELSE [ task_hist |-> Put(th, task_key,
                             [status |-> status, since |-> now_t, last_seen |-> now_t]),
           log |-> << >> ]

\* The debounce thresholds of the specification (3 in its scenarios).
on_n == 3

off_n == 3

\* History of raw observations: per task the number of consecutive ticks
\* with a true and with a false observation, counted up to the thresholds.
NoStreak == [on |-> 0, off |-> 0]

Observe(sk, dets, rs, roles) ==
  [k \in DOMAIN sk |->
     LET task == CHOOSE x \in Range(TASKS) : x.key = k
         seen == any_role_in_roi(dets, rs, roles, task.role, task.roi)
     IN IF seen THEN [on |-> IF sk[k].on < on_n THEN sk[k].on + 1 ELSE on_n, off |-> 0]
        ELSE [on |-> 0, off |-> IF sk[k].off < off_n THEN sk[k].off + 1 ELSE off_n]]

\* SimpleIoUTracker(iou_match=0.25, max_missed=40)
AppTracker == NewTracker(<<1, 4>>, 40)

\* No call made on the alert store yet.
\* History of the run: the times of the ticks on which update_passenger_flow
\* counted a track moving left to right, and right to left; and of the dock,
\* the centroid seen on this tick (dock_pos) and on the last tick before it
\* with a dock (dock_prev), the status before the call (dock_was), the time
\* of the first sighting (dock_first), of the last tick on which the detector
\* declared it moving (dock_moved), and of the first tick on which it was seen
\* at rest long enough to count as connected (dock_due).
NoSignals ==
  [ left_to_right |-> {}, right_to_left |-> {},
    dock_pos |-> NoneP, dock_last |-> NoneP, dock_prev |-> NoneP,
    dock_was |-> "NOT_CONNECTED", dock_first |-> NoneT, dock_moved |-> NoneT,
    dock_due |-> NoneT ]

NoOp == [op |-> "none"]

\* _init_dispatcher_state on a fresh session.
InitSession ==
  /\ last_op = NoOp
  /\ flow_signals = NoSignals
  /\ role_memory = << >>
  /\ tracker = AppTracker
  /\ pc = "idle"
  /\ playback_idx = 0
  /\ t_sec = 0
  /\ dets_df = << >>
  /\ rois = DefaultRois
  /\ asset_roles = EmptyDict
  /\ task_hist = EmptyDict
  /\ task_counters = EmptyDict
  /\ alerts = EmptyDict
  /\ seq_state = NewSequenceState
  /\ passenger_flow_state = NewPassengerFlowState
  /\ fingerdock_state = NewFingerdockState
  /\ event_log = << >>

\* A run of the script starts: the sidebar is read, frame playback_idx is
\* loaded and tracked; frame holds the tracked detections.
BeginFrame(frame, rs) ==
  /\ pc = "idle"
  /\ pc' = "flow"
  /\ t_sec' = playback_idx
  /\ dets_df' = frame
  /\ rois' = rs
  /\ event_log' = << >>
  /\ UNCHANGED << frames, playback_idx, asset_roles, task_hist, task_counters, alerts,
                  seq_state, passenger_flow_state, fingerdock_state, streak, last_op, tracker,
                  flow_signals, role_memory >>

\* update_passenger_flow and the update of task_hist with its statuses.
PassengerFlow ==
  /\ pc = "flow"
  /\ LET pf == update_passenger_flow(dets_df, rois.passenger_door, t_sec,
                                     passenger_flow_state)
         w1 == WriteFlowStatus(task_hist, "ground_staff_prep",
                               pf.result.ground_staff_prep, t_sec)
         w2 == WriteFlowStatus(w1.task_hist, "passenger_deboarding",
                               pf.result.passenger_deboarding, t_sec)
         w3 == WriteFlowStatus(w2.task_hist, "passenger_boarding",
                               pf.result.passenger_boarding, t_sec)
     IN /\ passenger_flow_state' = pf.state
        /\ flow_signals' =
             [flow_signals EXCEPT
                !.left_to_right = @ \cup (IF pf.left_to_right > 0 THEN {t_sec} ELSE {}),
                !.right_to_left = @ \cup (IF pf.right_to_left > 0 THEN {t_sec} ELSE {})]
        /\ task_hist' = w3.task_hist
        /\ event_log' = w1.log \o w2.log \o w3.log
  /\ pc' = "dock"
  /\ UNCHANGED << frames, playback_idx, t_sec, dets_df, rois, asset_roles, task_counters,
                  alerts, seq_state, fingerdock_state, streak, last_op, tracker,
                  role_memory >>

\* The dock history after a detect_fingerdock call that took the detector
\* from state was to state fd.  The dock is declared moving by the branch that
\* sets is_moving and stamps last_position_time with the time of the call.
DockSignals(sig, dets, roi, now_t, was, fd) ==
  LET cand  == IF roi = NoneRoi THEN << >> ELSE DockCandidates(dets, roi)
      pos   == IF cand = << >> THEN NoneP ELSE Centroid2(cand[1].bbox)
      first == IF sig.dock_first = NoneT /\ pos # NoneP THEN now_t ELSE sig.dock_first
      declared == /\ pos # NoneP /\ fd.is_moving /\ fd.status = "OPERATING"
                  /\ fd.last_position_time = now_t
      moved == IF declared THEN now_t ELSE sig.dock_moved
      due   == /\ pos # NoneP /\ ~declared
               /\ \/ moved # NoneT /\ now_t - moved >= 10
                  \/ moved = NoneT /\ first # NoneT /\ now_t - first >= 15
  IN [sig EXCEPT !.dock_pos = pos,
                 !.dock_prev = sig.dock_last,
                 !.dock_last = IF pos # NoneP THEN pos ELSE @,
                 !.dock_was = was.status,
                 !.dock_first = first,
                 !.dock_moved = moved,
                 !.dock_due = IF @ = NoneT /\ due THEN now_t ELSE @]

\* detect_fingerdock and the update of task_hist with its status.
Fingerdock ==
  /\ pc = "dock"
  /\ LET fd == detect_fingerdock(dets_df, rois.fingerdock, t_sec, fingerdock_state)
         w  == WriteFlowStatus(task_hist, "fingerdock", fd.status, t_sec)
     IN /\ fingerdock_state' = fd
        /\ flow_signals' = DockSignals(flow_signals, dets_df, rois.fingerdock, t_sec,
                                       fingerdock_state, fd)
        /\ task_hist' = w.task_hist
        /\ event_log' = w.log
  /\ pc' = "tasks"
  /\ UNCHANGED << frames, playback_idx, t_sec, dets_df, rois, asset_roles, task_counters,
                  alerts, seq_state, passenger_flow_state, streak, last_op, tracker,
                  role_memory >>

\* The call of eval_tasks.
EvalTasks ==
  /\ pc = "tasks"
  /\ LET et == eval_tasks(dets_df, rois, t_sec, asset_roles, task_hist, task_counters)
     IN /\ task_hist' = et.task_hist
        /\ task_counters' = et.task_counters
        /\ event_log' = et.log
  /\ streak' = Observe(streak, dets_df, rois, asset_roles)
  /\ UNCHANGED << last_op, tracker, flow_signals, role_memory >>
  /\ pc' = "sequence"
  /\ UNCHANGED << frames, playback_idx, t_sec, dets_df, rois, asset_roles, alerts, seq_state,
                  passenger_flow_state, fingerdock_state >>

\* The call of update_sequence.
UpdateSequence ==
  /\ pc = "sequence"
  /\ LET us == update_sequence(t_sec, task_hist, seq_state, alerts,
                               seq_done_sensitivity)
     IN /\ task_hist' = us.task_hist
        /\ seq_state' = us.seq_state
        /\ alerts' = us.alerts
        /\ event_log' = us.log
  /\ pc' = "alerts"
  /\ UNCHANGED << frames, playback_idx, t_sec, dets_df, rois, asset_roles, task_counters,
                  passenger_flow_state, fingerdock_state, streak, last_op, tracker,
                  flow_signals, role_memory >>

\* The call of compute_alerts_df.
ComputeAlerts ==
  /\ pc = "alerts"
  /\ LET ca == compute_alerts_df(t_sec, task_hist, alerts)
     IN /\ alerts' = ca.alerts
        /\ event_log' = ca.log
  /\ pc' = "playback"
  /\ UNCHANGED << frames, playback_idx, t_sec, dets_df, rois, asset_roles, task_hist,
                  task_counters, seq_state, passenger_flow_state, fingerdock_state,
                  streak, last_op, tracker, flow_signals, role_memory >>

\* "Playback loop" before the last frame: the run ends and the next one
\* takes the next frame.
PlaybackAdvance ==
  /\ pc = "playback"
  /\ playback_idx + 1 < frames.len
  /\ playback_idx' = playback_idx + 1
  /\ dets_df' = << >>
  /\ event_log' = << >>
  /\ pc' = "idle"
  /\ UNCHANGED << frames, t_sec, rois, asset_roles, task_hist, task_counters, alerts,
                  seq_state, passenger_flow_state, fingerdock_state, streak, last_op, tracker,
                  flow_signals, role_memory >>

\* "Playback loop" on the last frame with Loop checked: loop restart.
LoopRestart ==
  /\ pc = "playback"
  /\ playback_idx + 1 >= frames.len
  /\ playback_idx' = 0
  /\ task_hist' = EmptyDict
  /\ task_counters' = EmptyDict
  /\ alerts' = EmptyDict
  /\ seq_state' = NewSequenceState
  /\ dets_df' = << >>
  /\ event_log' = << LogEvent("info", 0, <<"Loop restart">>) >>
  /\ streak' = [k \in DOMAIN streak |-> NoStreak]
  /\ flow_signals' = NoSignals
  /\ UNCHANGED << last_op, tracker, role_memory >>
  /\ pc' = "idle"
  /\ UNCHANGED << frames, t_sec, rois, asset_roles, passenger_flow_state, fingerdock_state >>

\* The Reset button, between two runs of the script.
Reset ==
  /\ pc = "idle"
  /\ playback_idx' = 0
  /\ task_hist' = EmptyDict
  /\ task_counters' = EmptyDict
  /\ alerts' = EmptyDict
  /\ seq_state' = NewSequenceState
  /\ event_log' = << LogEvent("info", t_sec, <<"Playback reset">>) >>
  /\ streak' = [k \in DOMAIN streak |-> NoStreak]
  /\ tracker' = AppTracker
  /\ role_memory' = << >>
  /\ flow_signals' = NoSignals
  /\ UNCHANGED last_op
  /\ UNCHANGED << pc, frames, t_sec, dets_df, rois, asset_roles, passenger_flow_state,
                  fingerdock_state >>

\* The status dashboard bar of the layout: the counters of safety alerts and
\* the text of the safety indicator.
critical_alerts(store) ==
  Cardinality({id \in DOMAIN store :
                 store[id].severity = "CRITICAL" /\ store[id].status = "ACTIVE"})

warning_alerts(store) ==
  Cardinality({id \in DOMAIN store :
                 store[id].severity = "WARNING" /\ store[id].status = "ACTIVE"})

alert_text(store) ==
  IF critical_alerts(store) + warning_alerts(store) > 0 THEN "Active" ELSE "All Clear"

\* render_asset_tagging, in the layout after the tick: the operator picks
\* new_role for a vehicle track of the frame, and the script reruns.
VehicleClasses == {"truck", "car", "bus", "train"}

TagAsset(tid, new_role) ==
  /\ pc = "playback"
  /\ \E i \in DOMAIN dets_df :
       dets_df[i].track_id = tid /\ dets_df[i].cls_name \in VehicleClasses
  /\ new_role # Get(asset_roles, tid, "UNASSIGNED")
  /\ asset_roles' = Put(asset_roles, tid, new_role)
  /\ event_log' = << LogEvent("info", t_sec, <<"Asset tagged", new_role>>) >>
  /\ dets_df' = << >>
  /\ pc' = "idle"
  /\ UNCHANGED << frames, playback_idx, t_sec, rois, task_hist, task_counters,
                  alerts, seq_state, passenger_flow_state, fingerdock_state, streak,
                  last_op, tracker, flow_signals, role_memory >>

\* "Playback loop" with playback paused: the run ends and the next run, on
\* the next interaction, takes the same frame.
PlaybackPaused ==
  /\ pc = "playback"
  /\ dets_df' = << >>
  /\ event_log' = << >>
  /\ pc' = "idle"
  /\ UNCHANGED << frames, playback_idx, t_sec, rois, asset_roles, task_hist,
                  task_counters, alerts, seq_state, passenger_flow_state,
                  fingerdock_state, streak, last_op, tracker, flow_signals, role_memory >>

\* The operator types another folder into "Frames folder".
ChangeFolder(folder) ==
  /\ pc = "idle"
  /\ folder # frames
  /\ frames' = folder
  /\ event_log' = << >>
  /\ UNCHANGED << pc, playback_idx, t_sec, dets_df, rois, asset_roles, task_hist,
                  task_counters, alerts, seq_state, passenger_flow_state,
                  fingerdock_state, streak, last_op, tracker, flow_signals, role_memory >>

\* The steps of one run of the script on a frame, after BeginFrame.
RunSteps ==
  \/ PassengerFlow
  \/ Fingerdock
  \/ EvalTasks
  \/ UpdateSequence
  \/ ComputeAlerts

\* ---------------------------------------------------------------- frames
Det(track_id, cls_name, bbox) ==
  [track_id |-> track_id, cls_name |-> cls_name, bbox |-> bbox]

\* The frames built from slots: each slot is a set of alternative detections
\* of one object, of which a frame holds at most one; rows in slot order.
RECURSIVE FramesOf(_)
FramesOf(slots) ==
  IF slots = << >> THEN { << >> }
  ELSE LET rest == FramesOf(Tail(slots)) IN
       rest \cup { <<d>> \o f : d \in Head(slots), f \in rest }

FuelTruck == { Det(2, "truck", <<660, 260, 780, 340>>) }   \* centred in fuel

EnginePerson == { Det(10, "person", <<450, 380, 490, 480>>) }

PushbackPerson == { Det(11, "person", <<200, 500, 240, 600>>) }

AirsidePerson == { Det(12, "person", <<880, 130, 900, 170>>) }

\* A frames folder: len frames; shots tell what the detector and tracker
\* report on them, each shot a list of detections on frames from .. to.
Shot(from, to, dets) == [from |-> from, to |-> to, dets |-> dets]

Video(len, shots) == [len |-> len, shots |-> shots]

\* The tracked detections of frame idx of a folder, in shot order.
RECURSIVE ShotsAt(_, _)
ShotsAt(shots, idx) ==
  IF shots = << >> THEN << >>
  ELSE (IF Head(shots).from <= idx /\ idx <= Head(shots).to
          THEN Head(shots).dets ELSE << >>)
       \o ShotsAt(Tail(shots), idx)

\* idx = max(0, min(idx, len(frames) - 1)), then detection and tracking.
FrameAt(folder, idx) ==
  ShotsAt(folder.shots,
          IF idx > folder.len - 1 THEN folder.len - 1 ELSE idx)

\* ------------------------------------------------------- task engine spec
\* A short folder on which the detections of every run are free: what is
\* detected on a frame depends on the Confidence and IoU sliders, which the
\* operator can move before any run.
LenTasks == 4

FramesTasks == FramesOf(<< FuelTruck, EnginePerson >>)

InitTasks ==
  /\ InitSession
  /\ frames = Video(LenTasks, << >>)
  /\ streak = [k \in TaskKeys |-> NoStreak]

NextTasks ==
  \/ \E f \in FramesTasks : BeginFrame(f, DefaultRois)
  \/ RunSteps
  \/ PlaybackAdvance
  \/ PlaybackPaused
  \/ LoopRestart
  \/ Reset
  \/ TagAsset(2, "FUEL_TRUCK")

SpecTasks == InitTasks /\ [][NextTasks]_vars

\* ------------------------------------------------------------ claims, tasks
\* C1: in eval_tasks a task that is NOT_STARTED or INACTIVE becomes ACTIVE
\* only on a tick that completes on_n consecutive ticks with a true raw
\* observation of the task.
C1_ActiveOnlyAfterOnN ==
  [][EvalTasks =>
       \A k \in TaskKeys :
         (/\ _status(task_hist, k) \in {"NOT_STARTED", "INACTIVE"}
          /\ _status(task_hist', k) = "ACTIVE")
         => streak'[k].on = on_n]_vars

\* C2: in eval_tasks an ACTIVE task leaves ACTIVE only on a tick that
\* completes off_n consecutive ticks with a false raw observation.
C2_InactiveOnlyAfterOffN ==
  [][EvalTasks =>
       \A k \in TaskKeys :
         (/\ _status(task_hist, k) = "ACTIVE"
          /\ _status(task_hist', k) # "ACTIVE")
         => streak'[k].off = off_n]_vars

\* The alert of a safety rule is in the store, OPEN, with the rule's severity.
AlertOpen(rule) ==
  /\ rule.alert_id \in DOMAIN alerts
  /\ alerts[rule.alert_id].status = "OPEN"
  /\ alerts[rule.alert_id].severity = rule.severity

\* C4: after every tick (eval_tasks, then compute_alerts_df), the alert of
\* each safety rule is OPEN exactly when the rule's task is ACTIVE.
C4_SafetyAlertOpenIffActive ==
  pc = "playback" =>
    \A i \in DOMAIN SafetyRules :
      AlertOpen(SafetyRules[i]) <=> _status(task_hist, SafetyRules[i].task) = "ACTIVE"

\* C9: the alert seq_out_of_order_<key> is written only by the update_sequence
\* call that first records the start of the step while a prerequisite is not
\* DONE (or dropped with the whole store by a run reset), so it is raised at
\* most once per run, also when the step becomes active again later.
C9_OutOfOrderAtMostOnce ==
  [][\A i \in DOMAIN default_sequence :
       LET step == default_sequence[i]
           id   == "seq_out_of_order_" \o step.key
       IN GetAlert(alerts', id) # GetAlert(alerts, id) =>
            \/ alerts' = EmptyDict
            \/ /\ pc = "sequence"
               /\ step.key \notin DOMAIN seq_state.started_at
               /\ step.key \in DOMAIN seq_state'.started_at
               /\ seq_state'.started_at[step.key] = t_sec
               /\ Missing(step, task_hist, seq_state) # << >>]_vars

\* Fueling started out of order, went INACTIVE and is ACTIVE again with gpu
\* still not DONE; the alert is the one raised at the first start.
C9_Witness ==
  /\ pc = "alerts"
  /\ "seq_out_of_order_fueling" \in DOMAIN alerts
  /\ alerts["seq_out_of_order_fueling"].last_seen = seq_state.started_at["fueling"]
  /\ _status(task_hist, "fueling") = "ACTIVE"
  /\ task_hist["fueling"].since > seq_state.started_at["fueling"]
  /\ ~_is_done(task_hist, "gpu")

\* ------------------------------------------------------- alert store spec
\* The alert store under arbitrary calls of _upsert_alert and _close_alert,
\* at times that do not decrease.
AlertIds == {"engine_zone_not_clear", "seq_deadline_gpu"}

Severities == {"INFO", "WARNING", "CRITICAL"}

Messages == { <<"first">>, <<"second">> }

MaxTimeAlerts == 2

UpsertAlert(alert_id, severity, message, now_t) ==
  /\ pc = "idle"
  /\ LET r == _upsert_alert(alerts, alert_id, severity, "rule", message, now_t)
     IN /\ alerts' = r.alerts
        /\ event_log' = r.log
  /\ t_sec' = now_t
  /\ last_op' = [op |-> "upsert", alert_id |-> alert_id, severity |-> severity,
                 now_t |-> now_t, before |-> GetAlert(alerts, alert_id)]
  /\ UNCHANGED << pc, frames, playback_idx, dets_df, rois, asset_roles, task_hist,
                  task_counters, seq_state, passenger_flow_state, fingerdock_state,
                  streak, tracker, flow_signals, role_memory >>

CloseAlert(alert_id, now_t) ==
  /\ pc = "idle"
  /\ alerts' = _close_alert(alerts, alert_id, now_t)
  /\ event_log' = << >>
  /\ t_sec' = now_t
  /\ last_op' = [op |-> "close", alert_id |-> alert_id, severity |-> "None",
                 now_t |-> now_t, before |-> GetAlert(alerts, alert_id)]
  /\ UNCHANGED << pc, frames, playback_idx, dets_df, rois, asset_roles, task_hist,
                  task_counters, seq_state, passenger_flow_state, fingerdock_state,
                  streak, tracker, flow_signals, role_memory >>

InitAlerts ==
  /\ InitSession
  /\ frames = Video(0, << >>)
  /\ streak = EmptyDict

NextAlerts ==
  \/ \E alert_id \in AlertIds, severity \in Severities, message \in Messages,
        now_t \in t_sec .. MaxTimeAlerts :
       UpsertAlert(alert_id, severity, message, now_t)
  \/ \E alert_id \in AlertIds, now_t \in t_sec .. MaxTimeAlerts :
       CloseAlert(alert_id, now_t)

SpecAlerts == InitAlerts /\ [][NextAlerts]_vars

\* ----------------------------------------------------- claims, alert store
\* C5: an upsert on an id that has no OPEN entry (absent, or present and
\* CLOSED) leaves an entry for the id that is OPEN with
\* first_seen = last_seen = now_t, and emits one log event.
C5_UpsertOpensWhenNoOpenEntry ==
  (last_op.op = "upsert" /\ last_op.before.status # "OPEN") =>
    /\ last_op.alert_id \in DOMAIN alerts
    /\ alerts[last_op.alert_id].status = "OPEN"
    /\ alerts[last_op.alert_id].first_seen = last_op.now_t
    /\ alerts[last_op.alert_id].last_seen = last_op.now_t
    /\ Len(event_log) = 1

\* C6: the severity of an alert that stays OPEN never decreases in the order
\* INFO < WARNING < CRITICAL, and an upsert of an existing OPEN id with a
\* higher severity keeps one entry for the id, carrying the higher severity.
C6_SeverityNeverDecreases ==
  [][/\ \A id \in DOMAIN alerts \cap DOMAIN alerts' :
          (alerts[id].status = "OPEN" /\ alerts'[id].status = "OPEN")
          => sev_rank(alerts'[id].severity) >= sev_rank(alerts[id].severity)
     /\ (/\ last_op'.op = "upsert"
         /\ last_op' # last_op
         /\ last_op'.before.status = "OPEN"
         /\ sev_rank(last_op'.severity) > sev_rank(last_op'.before.severity))
        => /\ DOMAIN alerts' = DOMAIN alerts
           /\ alerts'[last_op'.alert_id].severity = last_op'.severity
           /\ alerts'[last_op'.alert_id].status = "OPEN"]_vars

\* An OPEN WARNING alert was upserted with CRITICAL and carries CRITICAL.
C6_Witness ==
  /\ last_op.op = "upsert"
  /\ last_op.before.status = "OPEN"
  /\ last_op.before.severity = "WARNING"
  /\ last_op.severity = "CRITICAL"
  /\ alerts[last_op.alert_id].severity = "CRITICAL"

\* --------------------------------------------------------- turnaround spec
\* Whole runs on three folders, frame by frame at one second per frame; the
\* operator picks the folder before the first frame of a run and tags the
\* truck on one of the frames of TagFrames.
LenLong == 123

TagFrames == {4, 60}

DoorPerson(cx) == Det(20, "person", <<cx - 10, 200, cx + 10, 300>>)

ParkedTruck == Det(1, "truck", <<40, 40, 120, 100>>)        \* outside every ROI

NoseTruck == Det(1, "truck", <<380, 340, 500, 420>>)        \* centred in nose

\* A person walks left to right through the passenger door ROI.
WalkOut ==
  << Shot(0, 0, << DoorPerson(940) >>), Shot(1, 1, << DoorPerson(960) >>),
     Shot(2, 3, << DoorPerson(980) >>) >>

FolderWalkOut == Video(4, WalkOut)

\* Nothing is detected for a minute, then a truck parks away from the aircraft.
FolderLateTruck == Video(LenLong, << Shot(60, LenLong - 1, << ParkedTruck >>) >>)

\* Deboarding, then the truck serves the nose twice.
FolderTurnaround ==
  Video(LenLong,
        WalkOut \o
        << Shot(4, 59, << ParkedTruck >>), Shot(60, 69, << NoseTruck >>),
           Shot(70, 74, << ParkedTruck >>), Shot(80, 89, << NoseTruck >>),
           Shot(90, LenLong - 1, << ParkedTruck >>) >>)

\* A dock vehicle centred in the fingerdock ROI, outside the aircraft ROI.
DockAt(cx) == Det(30, "truck", <<cx - 40, 260, cx + 40, 340>>)

\* The dock stands for 17 s, is seen 40 px further on for 2 s, and then only
\* a truck away from the aircraft is detected.
FolderDock ==
  Video(22, << Shot(0, 16, << DockAt(1000) >>), Shot(17, 18, << DockAt(1040) >>),
               Shot(19, 21, << ParkedTruck >>) >>)

\* Deboarding, then the person steps back once towards the door and leaves
\* the picture; a truck stays parked away from the aircraft.
FolderStepBack ==
  Video(60, WalkOut \o << Shot(4, 4, << DoorPerson(960) >>),
                          Shot(5, 59, << ParkedTruck >>) >>)

Folders == { FolderWalkOut, FolderLateTruck, FolderTurnaround, FolderDock,
             FolderStepBack }

InitLong ==
  /\ InitSession
  /\ frames \in Folders
  /\ streak = [k \in TaskKeys |-> NoStreak]

NextLong ==
  \/ BeginFrame(FrameAt(frames, playback_idx), DefaultRois)
  \/ RunSteps
  \/ PlaybackAdvance
  \/ LoopRestart
  \/ playback_idx = 0 /\ \E folder \in Folders : ChangeFolder(folder)
  \/ playback_idx \in TagFrames /\ TagAsset(1, "GPU_TRUCK")

SpecLong == InitLong /\ [][NextLong]_vars

\* C14: close on an id that is absent or whose entry is CLOSED is a no-op (no
\* entry is created, a CLOSED entry keeps all its fields), and close never
\* removes an entry.
C14_CloseIdempotent ==
  last_op.op = "close" =>
    /\ last_op.before.status # "OPEN"
       => GetAlert(alerts, last_op.alert_id) = last_op.before
    /\ last_op.before # NoneAlert => last_op.alert_id \in DOMAIN alerts

\* C15: an upsert on an OPEN entry with a severity that does not outrank the
\* stored one changes only last_seen.
C15_UpsertRefreshOnly ==
  (/\ last_op.op = "upsert"
   /\ last_op.before.status = "OPEN"
   /\ sev_rank(last_op.severity) <= sev_rank(last_op.before.severity))
  => alerts[last_op.alert_id] = [last_op.before EXCEPT !.last_seen = last_op.now_t]

\* ------------------------------------------------------ safety alerts spec
\* A short folder with a fuel truck and people at the engine and in the
\* pushback area, free on every tick, so that safety alerts of all severities
\* and a sequence alert open and close next to each other.
LenSafety == 3

FramesSafety == FramesOf(<< FuelTruck, EnginePerson, PushbackPerson >>)

InitSafety ==
  /\ InitSession
  /\ frames = Video(LenSafety, << >>)
  /\ streak = [k \in TaskKeys |-> NoStreak]

NextSafety ==
  \/ \E f \in FramesSafety : BeginFrame(f, DefaultRois)
  \/ RunSteps
  \/ PlaybackAdvance
  \/ LoopRestart
  \/ TagAsset(2, "FUEL_TRUCK")

SpecSafety == InitSafety /\ [][NextSafety]_vars

\* C16: the read view returned by compute_alerts_df holds exactly the OPEN
\* alerts of the store, one row each, ordered by severity descending and,
\* within equal severity, by last_seen descending.
C16_ViewOpenSorted ==
  pc = "alerts" =>
    LET ca == compute_alerts_df(t_sec, task_hist, alerts)
        v == ca.view
        rank(r) == CASE r.severity = "CRITICAL" -> 2
                     [] r.severity = "WARNING" -> 1
                     [] r.severity = "INFO" -> 0
    IN /\ { v[i].id : i \in 1..Len(v) }
          = { k \in DOMAIN ca.alerts : ca.alerts[k].status = "OPEN" }
       /\ \A i, j \in 1..Len(v) : i # j => v[i].id # v[j].id
       /\ \A i \in 1..Len(v) :
            /\ v[i].severity = ca.alerts[v[i].id].severity
            /\ v[i].t_last = ca.alerts[v[i].id].last_seen
       /\ \A i, j \in 1..Len(v) :
            i < j => \/ rank(v[i]) > rank(v[j])
                     \/ rank(v[i]) = rank(v[j]) /\ v[i].t_last >= v[j].t_last

\* The view holds two rows of one severity seen last at different times,
\* next to a CLOSED entry of the store that it leaves out.
C16_Witness ==
  /\ pc = "alerts"
  /\ LET ca == compute_alerts_df(t_sec, task_hist, alerts)
         v == ca.view
     IN /\ \E k \in DOMAIN ca.alerts : ca.alerts[k].status = "CLOSED"
        /\ \E i, j \in 1..Len(v) :
             v[i].severity = v[j].severity /\ v[i].t_last # v[j].t_last

\* C40: the dashboard's safety counters equal the numbers of OPEN CRITICAL
\* and OPEN WARNING alerts in the alert store, so the safety indicator shows
\* "All Clear" only on ticks where no CRITICAL or WARNING alert is OPEN.
C40_DashboardCountsOpenAlerts ==
  pc = "playback" =>
    LET open(sev) == {id \in DOMAIN alerts :
                        alerts[id].status = "OPEN" /\ alerts[id].severity = sev}
    IN /\ critical_alerts(alerts) = Cardinality(open("CRITICAL"))
       /\ warning_alerts(alerts) = Cardinality(open("WARNING"))
       /\ alert_text(alerts) = "All Clear" =>
            open("CRITICAL") = {} /\ open("WARNING") = {}

\* ------------------------------------------------------ claims, turnaround
\* C3: once a task's status is DONE, no call of eval_tasks changes it.
C3_DoneNotOverwritten ==
  [][EvalTasks =>
       \A k \in TaskKeys :
         _status(task_hist, k) = "DONE" => _status(task_hist', k) = "DONE"]_vars

\* C7: current_idx never decreases within a run (only the loop restart and
\* the Reset button, which start a new run, set it back) and always lies
\* between 0 and the number of steps.
C7_PointerMonotone ==
  [][/\ \/ seq_state'.current_idx >= seq_state.current_idx
        \/ seq_state' = NewSequenceState /\ playback_idx' = 0
     /\ seq_state'.current_idx \in 0 .. Len(default_sequence)]_vars

\* update_sequence has run with the pointer past passenger_deboarding and gpu
\* while passenger_deboarding has left DONE again.
C7_Witness ==
  /\ pc = "alerts"
  /\ seq_state.current_idx = 2
  /\ ~_is_done(task_hist, "passenger_deboarding")
  /\ "passenger_deboarding" \notin DOMAIN seq_state.done_at

\* C8: a step whose task has had no active status in the run (no start is
\* recorded for it: update_sequence records the start on the tick the status
\* is active) is not DONE: its key is not in done_at and its status is not
\* DONE.
C8_NeverActiveNeverDone ==
  \A i \in DOMAIN default_sequence :
    LET key == default_sequence[i].key IN
    key \notin DOMAIN seq_state.started_at =>
      /\ key \notin DOMAIN seq_state.done_at
      /\ ~_is_done(task_hist, key)

\* C10: after update_sequence on a tick with now_t >= deadline, a step with
\* no recorded start has its alert seq_deadline_<key> in the store, OPEN,
\* WARNING, first seen at most now and refreshed now; a step whose start was
\* recorded before its deadline has no such alert.
C10_DeadlineAlertOnce ==
  \A i \in DOMAIN default_sequence :
    LET step == default_sequence[i]
        id   == "seq_deadline_" \o step.key
    IN step.deadline_sec # NoneT =>
         /\ (/\ pc \in {"alerts", "playback"}
             /\ step.key \notin DOMAIN seq_state.started_at
             /\ t_sec >= step.deadline_sec)
            => /\ id \in DOMAIN alerts
               /\ alerts[id].severity = "WARNING"
               /\ alerts[id].status = "OPEN"
               /\ alerts[id].first_seen >= step.deadline_sec
               /\ alerts[id].last_seen = t_sec
         /\ (/\ step.key \in DOMAIN seq_state.started_at
             /\ seq_state.started_at[step.key] < step.deadline_sec)
            => id \notin DOMAIN alerts

\* gpu was never active, its deadline alert was raised at t = 120 and has
\* been raised again on a later tick.
C10_Witness ==
  /\ pc = "playback"
  /\ "gpu" \notin DOMAIN seq_state.started_at
  /\ "seq_deadline_gpu" \in DOMAIN alerts
  /\ alerts["seq_deadline_gpu"].first_seen = 120
  /\ alerts["seq_deadline_gpu"].last_seen > 120

\* C31: after every update_sequence call every step before current_idx is
\* DONE and the step at current_idx, if there is one, is not DONE, where DONE
\* means that the step's key is in done_at or its task status is DONE.
C31_PointerAtFirstOpenStep ==
  pc = "alerts" =>
    /\ \A i \in 1 .. seq_state.current_idx :
         \/ default_sequence[i].key \in DOMAIN seq_state.done_at
         \/ Get(task_hist, default_sequence[i].key, [status |-> "NOT_STARTED"]).status = "DONE"
    /\ seq_state.current_idx < Len(default_sequence) =>
         LET key == default_sequence[seq_state.current_idx + 1].key
         IN /\ key \notin DOMAIN seq_state.done_at
            /\ Get(task_hist, key, [status |-> "NOT_STARTED"]).status # "DONE"

\* ----------------------------------------------------------- sequence spec
\* The truck serves the nose for 4 s, parks away for 5 s and comes back; the
\* operator may tag it as the GPU truck on the first frame.
FolderShortStop ==
  Video(14, << Shot(0, 3, << NoseTruck >>), Shot(4, 8, << ParkedTruck >>),
               Shot(9, 13, << NoseTruck >>) >>)

\* The same with a first service of 6 s, which is seq_done_sensitivity.
FolderSixStop ==
  Video(14, << Shot(0, 5, << NoseTruck >>), Shot(6, 8, << ParkedTruck >>),
               Shot(9, 13, << NoseTruck >>) >>)

FoldersSequence == { FolderShortStop, FolderSixStop }

InitSequence ==
  /\ InitSession
  /\ frames \in FoldersSequence
  /\ streak = [k \in TaskKeys |-> NoStreak]

NextSequence ==
  \/ BeginFrame(FrameAt(frames, playback_idx), DefaultRois)
  \/ RunSteps
  \/ PlaybackAdvance
  \/ LoopRestart
  \/ playback_idx = 0 /\ \E folder \in FoldersSequence : ChangeFolder(folder)
  \/ playback_idx = 0 /\ TagAsset(1, "GPU_TRUCK")

SpecSequence == InitSequence /\ [][NextSequence]_vars

\* The step is due to be marked DONE on the tick of the given time: it has a
\* recorded start, is not yet done, its task is INACTIVE and the start is at
\* least seq_done_sensitivity seconds old.
DueDone(key, now_t, hist, seq) ==
  /\ key \in DOMAIN seq.started_at
  /\ key \notin DOMAIN seq.done_at
  /\ Get(hist, key, [status |-> "NOT_STARTED"]).status = "INACTIVE"
  /\ now_t - seq.started_at[key] >= seq_done_sensitivity

\* C30: update_sequence marks a step DONE (task status DONE, since = now_t,
\* done_at[key] = now_t) on exactly the ticks on which the step has a recorded
\* start, is not yet done, has task status INACTIVE and started at least
\* min_active_sec_for_done seconds ago, which it is only once; every key of
\* done_at is a key of started_at, and a recorded started_at or done_at value
\* never changes within the run (a loop restart begins a new run).
C30_MarkDoneOnce ==
  [][ /\ pc = "sequence" =>
           \A key \in StepKeys :
             /\ (key \in DOMAIN seq_state'.done_at \ DOMAIN seq_state.done_at)
                  <=> DueDone(key, t_sec, task_hist, seq_state)
             /\ DueDone(key, t_sec, task_hist, seq_state) =>
                  /\ task_hist'[key].status = "DONE"
                  /\ task_hist'[key].since = t_sec
                  /\ seq_state'.done_at[key] = t_sec
                  /\ ~DueDone(key, t_sec', task_hist', seq_state')
      /\ DOMAIN seq_state'.done_at \subseteq DOMAIN seq_state'.started_at
      /\ ~(pc = "playback" /\ pc' = "idle" /\ playback_idx' = 0 /\ seq_state' = NewSequenceState) =>
           /\ \A key \in DOMAIN seq_state.started_at :
                /\ key \in DOMAIN seq_state'.started_at
                /\ seq_state'.started_at[key] = seq_state.started_at[key]
           /\ \A key \in DOMAIN seq_state.done_at :
                /\ key \in DOMAIN seq_state'.done_at
                /\ seq_state'.done_at[key] = seq_state.done_at[key] ]_vars

\* gpu started at t = 0 and went INACTIVE at t = 4, too early to be marked;
\* it was marked DONE at t = 6, has gone back to ACTIVE since, and its start
\* and its completion time stand as recorded.
C30_Witness ==
  /\ pc = "playback"
  /\ frames = FolderShortStop
  /\ t_sec > 9
  /\ "gpu" \in DOMAIN seq_state.done_at
  /\ seq_state.started_at["gpu"] = 0
  /\ seq_state.done_at["gpu"] = 6
  /\ _is_active(task_hist, "gpu")

\* ------------------------------------------------------------ tracker spec
\* A SimpleIoUTracker under arbitrary frames of at most two detections.
\* BoxA and BoxB overlap with IoU 12/20, BoxA and BoxE with IoU 4/16, which
\* is iou_match exactly, BoxB and BoxE with IoU 2/18.
MaxMissedTracker == 1

MaxTrackId == 3

BoxA == <<0, 0, 4, 4>>

BoxB == <<1, 0, 5, 4>>

BoxE == <<0, 0, 2, 2>>

RawDets ==
  { Det(NoneId, cls_name, bbox) : cls_name \in {"truck", "car"},
                                  bbox \in {BoxA, BoxB, BoxE} }

RawFrames ==
  { << >> } \cup { <<d>> : d \in RawDets } \cup { <<d, e>> : d, e \in RawDets }

\* The track ids the call gave to the detections of the frame.
OutIds(dets) == { dets[j].track_id : j \in DOMAIN dets }

\* tracker.update(detections): last_op keeps the tracker before the call and
\* the ids of all tracks evicted so far.
TrackFrame(detections) ==
  /\ pc = "idle"
  /\ tracker.next_id + Len(detections) <= MaxTrackId + 1
  /\ LET r == TrackerUpdate(tracker, detections)
     IN /\ tracker' = r.tracker
        /\ dets_df' = r.detections
        /\ last_op' = [op |-> "track", before |-> tracker, detections |-> detections,
                       retired |-> (IF last_op.op = "track" THEN last_op.retired ELSE {})
                                   \cup (TrackIds(tracker.tracks)
                                         \ TrackIds(r.tracker.tracks))]
  /\ event_log' = << >>
  /\ UNCHANGED << pc, frames, playback_idx, t_sec, rois, asset_roles, task_hist,
                  task_counters, alerts, seq_state, passenger_flow_state,
                  fingerdock_state, streak, flow_signals, role_memory >>

InitTracker ==
  /\ pc = "idle"
  /\ frames = Video(0, << >>)
  /\ playback_idx = 0
  /\ t_sec = 0
  /\ dets_df = << >>
  /\ rois = DefaultRois
  /\ asset_roles = EmptyDict
  /\ task_hist = EmptyDict
  /\ task_counters = EmptyDict
  /\ alerts = EmptyDict
  /\ seq_state = NewSequenceState
  /\ passenger_flow_state = NewPassengerFlowState
  /\ fingerdock_state = NewFingerdockState
  /\ event_log = << >>
  /\ streak = EmptyDict
  /\ last_op = NoOp
  /\ flow_signals = NoSignals
  /\ role_memory = << >>
  /\ tracker = NewTracker(<<1, 4>>, MaxMissedTracker)

NextTracker == \E detections \in RawFrames : TrackFrame(detections)

SpecTracker == InitTracker /\ [][NextTracker]_vars

\* ----------------------------------------------------- claims, detectors
\* C17: once the fingerdock status is CONNECTED, every later call of
\* detect_fingerdock leaves it CONNECTED, whatever the tick detects.
C17_ConnectedSticky ==
  [][(pc = "dock" /\ fingerdock_state.status = "CONNECTED")
     => fingerdock_state'.status = "CONNECTED"]_vars

\* C18: on a tick with no fingerdock ROI or with no truck, bus or train
\* centred in it, detect_fingerdock keeps the status of the previous tick.
C18_NoCandidateKeepsStatus ==
  [][(/\ pc = "dock"
      /\ \/ rois.fingerdock = NoneRoi
         \/ \A i \in DOMAIN dets_df :
              ~(/\ dets_df[i].cls_name \in {"truck", "bus", "train"}
                /\ _in_roi(dets_df[i].bbox, rois.fingerdock)))
     => fingerdock_state'.status = fingerdock_state.status]_vars

\* C19: passenger_deboarding is reported NOT_STARTED before any left-to-right
\* signal of the run, STARTED on the tick of the first one, ONGOING on later
\* ticks while the most recent one is less than 50 s old, and DONE on every
\* tick at which it is at least 50 s old.
C19_DeboardingPhases ==
  pc = "flow" =>
    LET pf == update_passenger_flow(dets_df, rois.passenger_door, t_sec,
                                    passenger_flow_state)
        now == IF pf.left_to_right > 0 THEN {t_sec} ELSE {}
        sig == flow_signals.left_to_right \cup now
        last == CHOOSE t \in sig : \A u \in sig : u <= t
        reported == pf.result.passenger_deboarding
    IN IF sig = {} THEN reported = "NOT_STARTED"
       ELSE IF flow_signals.left_to_right = {} THEN reported = "STARTED"
       ELSE IF t_sec - last < 50 THEN reported = "ONGOING"
       ELSE reported = "DONE"

\* C20: passenger_boarding is reported STARTED or ONGOING only on ticks where
\* deboarding is reported DONE, and it is reported STARTED only when
\* right-to-left signals of the run span at least 10 s.
C20_BoardingAfterSustainedSignal ==
  pc = "flow" =>
    LET pf == update_passenger_flow(dets_df, rois.passenger_door, t_sec,
                                    passenger_flow_state)
        sig == flow_signals.right_to_left
                 \cup (IF pf.right_to_left > 0 THEN {t_sec} ELSE {})
    IN /\ pf.result.passenger_boarding \in {"STARTED", "ONGOING"}
          => pf.result.passenger_deboarding = "DONE"
       /\ pf.result.passenger_boarding = "STARTED"
          => \E a, b \in sig : b - a >= 10

\* ------------------------------------------------------ passenger flow spec
\* A person walks right to left through the door ROI, turns and walks back
\* left to right; then only a truck parked away from the aircraft is seen.
FolderStaff ==
  Video(16, << Shot(0, 0, << DoorPerson(1000) >>), Shot(1, 1, << DoorPerson(980) >>),
               Shot(2, 2, << DoorPerson(960) >>), Shot(3, 3, << DoorPerson(980) >>),
               Shot(4, 4, << DoorPerson(1000) >>), Shot(5, 15, << ParkedTruck >>) >>)

\* A person walks right to left through the door ROI and leaves; a truck
\* parked away from the aircraft is seen up to the last frame, which shows
\* nothing.
FolderStaffLeaves ==
  Video(16, << Shot(0, 0, << DoorPerson(1000) >>), Shot(1, 1, << DoorPerson(980) >>),
               Shot(2, 2, << DoorPerson(960) >>), Shot(3, 14, << ParkedTruck >>) >>)

\* A person walks right to left through the door ROI, and then nothing at all
\* is detected.
FolderStaffGone ==
  Video(10, << Shot(0, 0, << DoorPerson(1000) >>), Shot(1, 1, << DoorPerson(980) >>),
               Shot(2, 2, << DoorPerson(960) >>) >>)

FoldersFlow == { FolderStaff, FolderStaffLeaves, FolderStaffGone }

InitFlow ==
  /\ InitSession
  /\ frames \in FoldersFlow
  /\ streak = [k \in TaskKeys |-> NoStreak]

NextFlow ==
  \/ BeginFrame(FrameAt(frames, playback_idx), DefaultRois)
  \/ RunSteps
  \/ PlaybackAdvance
  \/ LoopRestart
  \/ playback_idx = 0 /\ \E folder \in FoldersFlow : ChangeFolder(folder)
  \/ playback_idx = 3 /\ Reset

SpecFlow == InitFlow /\ [][NextFlow]_vars

\* C21: ground_staff_prep is reported ONGOING from the first right-to-left
\* signal seen before deboarding started and DONE once the last such signal
\* is more than 10 s old; a right-to-left signal seen after deboarding
\* started is not counted as ground-staff preparation.
C21_GroundStaffPhases ==
  pc = "flow" =>
    LET pf == update_passenger_flow(dets_df, rois.passenger_door, t_sec,
                                    passenger_flow_state)
        l2r == flow_signals.left_to_right
        r2l == flow_signals.right_to_left
                 \cup (IF pf.right_to_left > 0 THEN {t_sec} ELSE {})
        prep == { t \in r2l : \A u \in l2r : t <= u }
        last == CHOOSE t \in prep : \A u \in prep : u <= t
        reported == pf.result.ground_staff_prep
    IN /\ prep # {} =>
            /\ t_sec - last < 10 => reported = "ONGOING"
            /\ t_sec - last = 10 => reported \in {"ONGOING", "DONE"}
            /\ t_sec - last > 10 => reported = "DONE"
       /\ (pf.right_to_left > 0 /\ l2r # {})
            => pf.state.last_ground_staff_detection
                 = passenger_flow_state.last_ground_staff_detection

\* C22: on a tick with an empty detection set or with no passenger-door ROI
\* the passenger-flow statuses of the task store keep the values they had
\* after the previous tick.
C22_EmptyTickKeepsFlowStatus ==
  [][(/\ pc = "flow"
      /\ dets_df = << >> \/ rois.passenger_door = NoneRoi)
     => \A k \in {"ground_staff_prep", "passenger_deboarding", "passenger_boarding"} :
          k \in DOMAIN task_hist => task_hist'[k].status = task_hist[k].status]_vars

\* C34: after every tick each track's passenger position history holds at
\* most 10 samples in non-decreasing time order, and no history remains for a
\* track that is not in the ROI on this tick and whose last sample is more
\* than 5 s old.
C34_PositionHistoryBounded ==
  pc = "dock" =>
    LET pp == passenger_flow_state.person_positions
        in_roi == {d.track_id : d \in Range(PeopleInRoi(dets_df, rois.passenger_door))}
    IN \A tid \in DOMAIN pp :
         /\ Len(pp[tid]) <= 10
         /\ \A i \in 1 .. Len(pp[tid]) - 1 : pp[tid][i][3] <= pp[tid][i + 1][3]
         /\ ~(/\ tid \notin in_roi
              /\ pp[tid] # << >>
              /\ t_sec - pp[tid][Len(pp[tid])][3] > 5)

\* The place of a passenger-flow status in NOT_STARTED, STARTED, ONGOING, DONE.
FlowRank(status) ==
  CASE status = "NOT_STARTED" -> 0
    [] status = "STARTED" -> 1
    [] status = "ONGOING" -> 2
    [] status = "DONE" -> 3

\* C35: within a run each passenger-flow status only moves forward in the
\* order NOT_STARTED, STARTED, ONGOING, DONE: a tick's passenger-flow update
\* never writes a status that comes before the one recorded for the key.
C35_FlowStatusForward ==
  [][ pc = "flow" =>
        \A key \in {"ground_staff_prep", "passenger_deboarding", "passenger_boarding"} :
          key \in DOMAIN task_hist =>
            FlowRank(task_hist'[key].status) >= FlowRank(task_hist[key].status) ]_vars

\* ---------------------------------------------------------------- dock spec
\* The dock creeps 10 px per tick for two ticks and then stands.
FolderDrift ==
  Video(8, << Shot(0, 0, << DockAt(1000) >>), Shot(1, 1, << DockAt(1010) >>),
              Shot(2, 7, << DockAt(1020) >>) >>)

\* The dock stands for 2 s, is seen 40 px further on and stands there.
FolderMoveStop ==
  Video(16, << Shot(0, 1, << DockAt(900) >>), Shot(2, 15, << DockAt(940) >>) >>)

FoldersDock == { FolderDock, FolderDrift, FolderMoveStop }

InitDock ==
  /\ InitSession
  /\ frames \in FoldersDock
  /\ streak = [k \in TaskKeys |-> NoStreak]

NextDock ==
  \/ BeginFrame(FrameAt(frames, playback_idx), DefaultRois)
  \/ RunSteps
  \/ PlaybackAdvance
  \/ LoopRestart

SpecDock == InitDock /\ [][NextDock]_vars

\* The detect_fingerdock call of this tick has returned.
AfterDock == pc = "tasks"

\* C32: the first sighting of the dock yields NOT_CONNECTED, and the status
\* becomes CONNECTED only on a tick where the dock is detected without
\* movement and either it had been observed moving and at least 10 s have
\* passed since its last movement, or it was never observed moving and at
\* least 15 s have passed since the first sighting; connected_at is set on the
\* first such tick and never overwritten.
C32_ConnectedAfterRest ==
  AfterDock =>
    /\ (flow_signals.dock_pos # NoneP /\ flow_signals.dock_first = t_sec) =>
          fingerdock_state.status = "NOT_CONNECTED"
    /\ (flow_signals.dock_was # "CONNECTED" /\ fingerdock_state.status = "CONNECTED") =>
          /\ flow_signals.dock_pos # NoneP
          /\ flow_signals.dock_moved # t_sec
          /\ \/ flow_signals.dock_moved # NoneT /\ t_sec - flow_signals.dock_moved >= 10
             \/ /\ flow_signals.dock_moved = NoneT
                /\ flow_signals.dock_first # NoneT
                /\ t_sec - flow_signals.dock_first >= 15
    /\ fingerdock_state.connected_at = flow_signals.dock_due

\* C33: the dock is declared moving (status OPERATING, is_moving set) on a
\* tick only if its centroid lies more than 15 px from its centroid on the
\* previous tick at which it was detected.
C33_MovingOnlyOnShift ==
  (AfterDock /\ flow_signals.dock_moved = t_sec) =>
    /\ flow_signals.dock_prev # NoneP
    /\ LET dx2 == flow_signals.dock_pos[1] - flow_signals.dock_prev[1]
           dy2 == flow_signals.dock_pos[2] - flow_signals.dock_prev[2]
       IN dx2 * dx2 + dy2 * dy2 > 4 * (15 * 15)

\* ------------------------------------------------------- full turnaround spec
\* A complete turnaround on one video: passengers leave, the GPU truck serves
\* the nose, fuel truck and belt loader serve together, passengers board, the
\* tug comes and goes.  A vehicle that is not serving stands parked outside
\* every ROI, so that no frame is empty; the operator tags the four vehicles
\* on the first frame.
LenFull == 100

ServiceRoles == << "GPU_TRUCK", "FUEL_TRUCK", "BELT_LOADER", "PUSHBACK_TUG" >>

ServiceBox ==
  << <<380, 340, 500, 420>>, <<660, 260, 780, 340>>, <<300, 560, 400, 640>>,
     <<560, 620, 640, 680>> >>

ParkedBox(tid) == <<40 + 100 * (tid - 1), 20, 120 + 100 * (tid - 1), 100>>

\* Vehicle tid serves on the frames from .. to and is parked before and after.
Serves(tid, from, to) ==
  << Shot(0, from - 1, << Det(tid, "truck", ParkedBox(tid)) >>),
     Shot(from, to, << Det(tid, "truck", ServiceBox[tid]) >>),
     Shot(to + 1, LenFull - 1, << Det(tid, "truck", ParkedBox(tid)) >>) >>

\* A person walks right to left through the passenger door ROI.
WalkIn ==
  << Shot(60, 60, << DoorPerson(1000) >>), Shot(61, 61, << DoorPerson(980) >>),
     Shot(62, 62, << DoorPerson(960) >>) >>

FolderFull ==
  Video(LenFull, WalkOut \o Serves(1, 4, 13) \o Serves(2, 20, 29) \o Serves(3, 20, 29)
                 \o WalkIn \o Serves(4, 80, 89))

\* The operator tags the vehicles one after the other on the first frame.
TagInOrder ==
  /\ playback_idx = 0
  /\ \E tid \in DOMAIN ServiceRoles :
       /\ tid = Cardinality(DOMAIN asset_roles) + 1
       /\ TagAsset(tid, ServiceRoles[tid])

InitFull ==
  /\ InitSession
  /\ frames = FolderFull
  /\ streak = [k \in TaskKeys |-> NoStreak]

NextFull ==
  \/ BeginFrame(FrameAt(frames, playback_idx), DefaultRois)
  \/ RunSteps
  \/ PlaybackAdvance
  \/ LoopRestart
  \/ TagInOrder

\* The positions of a run of the script.
Positions == {"idle", "flow", "dock", "tasks", "sequence", "alerts", "playback"}

\* The script does not stop: it leaves every position it reaches, which is
\* weak fairness of each of its calls, a call being enabled exactly at its
\* position; and the operator gets to tag every vehicle.
SpecFull ==
  /\ InitFull /\ [][NextFull]_vars
  /\ \A p \in Positions : []<>(pc # p)
  /\ SF_vars(TagInOrder)

\* The step is DONE for the sequence: marked in done_at or DONE in task_hist.
StepDone(key) ==
  \/ key \in DOMAIN seq_state.done_at
  \/ Get(task_hist, key, [status |-> "NOT_STARTED"]).status = "DONE"

Completed ==
  /\ seq_state.current_idx = Len(default_sequence)
  /\ \A key \in StepKeys : StepDone(key)

\* passenger_boarding is never marked done: only update_passenger_flow writes
\* its status, and it writes NOT_STARTED, STARTED or ONGOING.
BoardingNeverDone ==
  /\ ~StepDone("passenger_boarding")
  /\ seq_state.current_idx < Len(default_sequence)

\* C38: the turnaround sequence can be completed: on the video of a complete
\* turnaround with every vehicle tagged, a tick comes after which all six
\* steps of default_sequence are DONE and current_idx equals the number of
\* steps.
C38_SequenceCompletes == <>Completed

\* ------------------------------------------------------------- reset spec
\* Runs on frames whose detections come untracked from the detector: the
\* tracker of the session gives them their ids.  A fuel truck is detected or
\* not on each of the frames of a short folder.
LenReset == 2

MaxIdReset == 2

RawFuelTruck == Det(NoneId, "truck", <<660, 260, 780, 340>>)

\* idx, t_sec, detection, tracker.update(dets) and dets_df of a run.
BeginFrameRaw(detections, rs) ==
  /\ pc = "idle"
  /\ tracker.next_id + Len(detections) <= MaxIdReset + 1
  /\ LET r == TrackerUpdate(tracker, detections)
     IN /\ tracker' = r.tracker
        /\ dets_df' = r.detections
  /\ pc' = "flow"
  /\ t_sec' = playback_idx
  /\ rois' = rs
  /\ event_log' = << >>
  /\ UNCHANGED << frames, playback_idx, asset_roles, task_hist, task_counters, alerts,
                  seq_state, passenger_flow_state, fingerdock_state, streak, last_op,
                  flow_signals, role_memory >>

InitReset ==
  /\ InitSession
  /\ frames = Video(LenReset, << >>)
  /\ streak = [k \in TaskKeys |-> NoStreak]

NextReset ==
  \/ \E f \in { << >>, << RawFuelTruck >> } : BeginFrameRaw(f, DefaultRois)
  \/ RunSteps
  \/ PlaybackAdvance
  \/ LoopRestart
  \/ Reset
  \/ TagAsset(1, "FUEL_TRUCK")

SpecReset == InitReset /\ [][NextReset]_vars

\* C23: the Reset button and the loop restart leave the task records, the
\* debounce counters, the alert store, the sequence state and the tracker in
\* their initial state, and keep the role assignments.
C23_ResetClearsRunState ==
  [][(/\ event_log' # << >>
      /\ event_log'[1].msg \in { <<"Playback reset">>, <<"Loop restart">> })
     => /\ task_hist' = EmptyDict
        /\ task_counters' = EmptyDict
        /\ alerts' = EmptyDict
        /\ seq_state' = NewSequenceState
        /\ tracker'.tracks = << >>
        /\ tracker'.next_id = 1
        /\ asset_roles' = asset_roles]_vars

\* C39: a run reset also reinitializes the flow detectors: after the Reset
\* button FingerdockState and PassengerFlowState are in their initial state,
\* so that no elapsed time in the new run is computed from a timestamp
\* recorded in the previous run.
C39_ResetReinitializesDetectors ==
  [][(/\ event_log' # << >>
      /\ event_log'[1].msg = <<"Playback reset">>)
     => /\ fingerdock_state' = NewFingerdockState
        /\ passenger_flow_state' = NewPassengerFlowState]_vars

\* ------------------------------------------------------ claims, task store
\* C24: every record of the task store has a status in NOT_STARTED, ACTIVE,
\* INACTIVE, DONE, whichever component wrote it.
C24_TaskStatusDomain ==
  \A k \in DOMAIN task_hist :
    task_hist[k].status \in {"NOT_STARTED", "ACTIVE", "INACTIVE", "DONE"}

\* C25: when eval_tasks moves a task from NOT_STARTED or INACTIVE to ACTIVE
\* it sets since only if since was unset, and it refreshes last_seen on every
\* tick with a true observation.
C25_SinceOfFirstActivation ==
  [][pc = "tasks" =>
      \A i \in DOMAIN TASKS :
        LET key == TASKS[i].key
            prev == Get(task_hist, key, NewTask)
        IN any_role_in_roi(dets_df, rois, asset_roles, TASKS[i].role, TASKS[i].roi)
           => /\ task_hist'[key].last_seen = t_sec
              /\ prev.status \in {"NOT_STARTED", "INACTIVE"}
                 => /\ task_hist'[key].status = "ACTIVE"
                    /\ task_hist'[key].since
                         = (IF prev.since = NoneT THEN t_sec ELSE prev.since)]_vars

\* The events of a log that report a change of status of the key.
StatusEvents(log, key) ==
  {i \in DOMAIN log : log[i].level = "task" /\ log[i].msg[1] = key}

CoordMax == 3

GridBoxes ==
  { <<x1, y1, x2, y2>> : x1 \in 0..CoordMax, y1 \in 0..CoordMax,
                         x2 \in 0..CoordMax, y2 \in 0..CoordMax }

Boxes == { b \in GridBoxes : b[1] < b[3] /\ b[2] < b[4] }

InitGeometry ==
  /\ pc = "idle"
  /\ frames = Video(0, << >>)
  /\ playback_idx = 0
  /\ t_sec = 0
  /\ \E a \in Boxes, b \in Boxes :
       dets_df = << Det(NoneId, "box", a), Det(NoneId, "box", b) >>
  /\ rois = DefaultRois
  /\ asset_roles = EmptyDict
  /\ task_hist = EmptyDict
  /\ task_counters = EmptyDict
  /\ alerts = EmptyDict
  /\ seq_state = NewSequenceState
  /\ passenger_flow_state = NewPassengerFlowState
  /\ fingerdock_state = NewFingerdockState
  /\ event_log = << >>
  /\ streak = EmptyDict
  /\ last_op = NoOp
  /\ flow_signals = NoSignals
  /\ role_memory = << >>
  /\ tracker = AppTracker

\* The three _in_roi helpers on the bbox and the ROI.
InRoiCall ==
  /\ last_op' = [op |-> "in_roi", bbox |-> dets_df[1].bbox, roi |-> dets_df[2].bbox,
                 rules_engine |-> _in_roi(dets_df[1].bbox, dets_df[2].bbox),
                 passenger_flow |-> _in_roi_passenger_flow(dets_df[1].bbox,
                                                           dets_df[2].bbox),
                 fingerdock |-> _in_roi_fingerdock(dets_df[1].bbox, dets_df[2].bbox)]
  /\ UNCHANGED << pc, frames, playback_idx, t_sec, dets_df, rois, asset_roles,
                  task_hist, task_counters, alerts, seq_state, passenger_flow_state,
                  fingerdock_state, event_log, streak, tracker, flow_signals, role_memory >>

\* _iou(a, b), _iou(b, a) and _iou(a, a).
IouCall ==
  /\ last_op' = [op |-> "iou", a |-> dets_df[1].bbox, b |-> dets_df[2].bbox,
                 ab |-> _iou(dets_df[1].bbox, dets_df[2].bbox),
                 ba |-> _iou(dets_df[2].bbox, dets_df[1].bbox),
                 aa |-> _iou(dets_df[1].bbox, dets_df[1].bbox)]
  /\ UNCHANGED << pc, frames, playback_idx, t_sec, dets_df, rois, asset_roles,
                  task_hist, task_counters, alerts, seq_state, passenger_flow_state,
                  fingerdock_state, event_log, streak, tracker, flow_signals, role_memory >>

NextGeometry == InRoiCall \/ IouCall

SpecGeometry == InitGeometry /\ [][NextGeometry]_vars

\* C26: a detection is inside an ROI exactly when the centroid of its bbox
\* satisfies rx1 <= cx <= rx2 and ry1 <= cy <= ry2, and the three _in_roi
\* helpers give the same answer.
C26_CentroidInRoi ==
  last_op.op = "in_roi" =>
    LET bb == last_op.bbox
        roi == last_op.roi
        inside == /\ 2 * roi[1] <= bb[1] + bb[3] /\ bb[1] + bb[3] <= 2 * roi[3]
                  /\ 2 * roi[2] <= bb[2] + bb[4] /\ bb[2] + bb[4] <= 2 * roi[4]
    IN /\ last_op.rules_engine = inside
       /\ last_op.passenger_flow = inside
       /\ last_op.fingerdock = inside

\* A bbox whose centroid lies on the left boundary of the ROI, with its left
\* corners outside the ROI, is found inside.
C26_Witness ==
  /\ last_op.op = "in_roi"
  /\ last_op.rules_engine
  /\ last_op.bbox[1] + last_op.bbox[3] = 2 * last_op.roi[1]
  /\ last_op.bbox[1] < last_op.roi[1]

\* C27: _iou(a, b) = _iou(b, a), _iou(a, a) = 1, the result lies between 0
\* and 1, and boxes whose interiors do not overlap give 0.
C27_IouProperties ==
  last_op.op = "iou" =>
    LET a == last_op.a
        b == last_op.b
        apart == \/ a[3] <= b[1] \/ b[3] <= a[1]
                 \/ a[4] <= b[2] \/ b[4] <= a[2]
    IN /\ last_op.ab[2] > 0 /\ last_op.ba[2] > 0 /\ last_op.aa[2] > 0
       /\ last_op.ab[1] * last_op.ba[2] = last_op.ba[1] * last_op.ab[2]
       /\ last_op.aa[1] = last_op.aa[2]
       /\ 0 <= last_op.ab[1] /\ last_op.ab[1] <= last_op.ab[2]
       /\ apart => last_op.ab[1] = 0

\* Two different boxes that overlap in part.
C27_Witness ==
  /\ last_op.op = "iou"
  /\ last_op.a # last_op.b
  /\ 0 < last_op.ab[1]
  /\ last_op.ab[1] < last_op.ab[2]

\* -------------------------------------------------------------- roles spec
\* _update_role_memory and _role_handoff on frames of up to two tracked
\* trucks at overlapping places, with tracks 1 and 2 tagged by the operator
\* and track 3 a track the tracker started later.  The times of the frames are such that a
\* memory entry is seen at the ages 0, 8, 9 and 17.
TimesRoles == {0, 8, 17}

VehicleAt(tid, bbox) == Det(tid, "truck", bbox)

FramesRoles ==
  { << >>,
    << VehicleAt(1, BoxA) >>,
    << VehicleAt(1, BoxA), VehicleAt(2, BoxE) >>,
    << VehicleAt(3, BoxA) >>,
    << VehicleAt(3, BoxB) >>,
    << VehicleAt(3, BoxE) >>,
    << VehicleAt(1, BoxA), VehicleAt(3, BoxE) >>,
    << VehicleAt(2, BoxE), VehicleAt(3, BoxA) >> }

\* The orders in which a dict with the keys S can list them.
Orders(S) ==
  { f \in [1..Cardinality(S) -> S] :
      \A i, j \in 1..Cardinality(S) : f[i] = f[j] => i = j }

\* The part of a run between tracking and the detectors:
\* _update_role_memory(dets_df, now_t) and _role_handoff(dets_df, now_t).
\* last_op keeps asset_roles before the calls and role_memory as
\* _role_handoff found it.
RoleFrame(frame, now) ==
  /\ pc \in {"idle", "playback"}
  /\ now >= t_sec
  /\ \E order \in Orders(DOMAIN asset_roles) :
       LET mem == _update_role_memory(frame, now, asset_roles, role_memory, order)
           h   == _role_handoff(frame, now, asset_roles, mem)
       IN /\ asset_roles' = h.asset_roles
          /\ role_memory' = h.role_memory
          /\ event_log' = h.log
          /\ last_op' = [op |-> "handoff", now_t |-> now, asset_roles |-> asset_roles,
                         role_memory |-> mem]
  /\ t_sec' = now
  /\ dets_df' = frame
  /\ pc' = "playback"
  /\ UNCHANGED << frames, playback_idx, rois, task_hist, task_counters, alerts,
                  seq_state, passenger_flow_state, fingerdock_state, streak, tracker,
                  flow_signals >>

InitRoles ==
  /\ InitSession
  /\ frames = Video(0, << >>)
  /\ streak = EmptyDict

NextRoles ==
  \/ \E frame \in FramesRoles, now \in TimesRoles : RoleFrame(frame, now)
  \/ TagAsset(1, "FUEL_TRUCK")
  \/ TagAsset(2, "GPU_TRUCK")

SpecRoles == InitRoles /\ [][NextRoles]_vars

\* ------------------------------------------------------------ claims, roles
\* The role of a track, and the tracks that carry a role.
RoleOf(roles, tid) == IF tid \in DOMAIN roles THEN roles[tid] ELSE "UNASSIGNED"

Carriers(roles, role) == { tid \in DOMAIN roles : roles[tid] = role }

\* C29: _role_handoff moves a role R to a track T only if R has a memory
\* entry at most max_age old, no visible vehicle track carries R, T is a
\* visible vehicle track that carried no role before the call and T's bbox
\* has the greatest IoU with the remembered bbox among such candidates, at
\* least iou_thr; then the old track no longer maps to R and the memory of R
\* holds T and its bbox; otherwise the assignment of R is unchanged.
C29_HandoffToBestCandidate ==
  (pc = "playback" /\ last_op.op = "handoff") =>
    LET before == last_op.asset_roles
        memory == last_op.role_memory
        veh == { k \in DOMAIN dets_df :
                   dets_df[k].cls_name \in {"truck", "car", "bus", "train"} }
        cand == { k \in veh : RoleOf(before, dets_df[k].track_id) = "UNASSIGNED" }
    IN \A R \in {"FUEL_TRUCK", "GPU_TRUCK"} :
         LET moved == Carriers(asset_roles, R) \ Carriers(before, R)
         IN /\ \A T \in moved :
                 \E m \in DOMAIN memory, k \in cand :
                   /\ memory[m].role = R
                   /\ last_op.now_t - memory[m].last_seen <= 8
                   /\ \A j \in veh : RoleOf(before, dets_df[j].track_id) # R
                   /\ dets_df[k].track_id = T
                   /\ LET best == _bbox_iou(memory[m].bbox, dets_df[k].bbox)
                      IN /\ 5 * best[1] >= best[2]
                         /\ \A j \in cand :
                              LET other == _bbox_iou(memory[m].bbox, dets_df[j].bbox)
                              IN other[1] * best[2] <= best[1] * other[2]
                   /\ RoleOf(asset_roles, memory[m].track_id) # R
                   /\ \E n \in DOMAIN role_memory :
                        /\ role_memory[n].role = R
                        /\ role_memory[n].track_id = T
                        /\ role_memory[n].bbox = dets_df[k].bbox
            /\ moved = {} => Carriers(asset_roles, R) = Carriers(before, R)

\* C37: within one _role_handoff call a candidate track receives at most one
\* role: every role handed off during the call is still mapped to its new
\* track when the call returns, so that the track named by the memory of R
\* carries R for each role R handed off.
C37_OneRolePerCandidate ==
  (pc = "playback" /\ last_op.op = "handoff") =>
    \A i \in DOMAIN event_log :
      LET role == event_log[i].msg[2] IN
      /\ \E j \in DOMAIN role_memory :
           /\ role_memory[j].role = role
           /\ RoleOf(asset_roles, role_memory[j].track_id) = role
      /\ \A k \in DOMAIN event_log :
           event_log[k].msg[4] = event_log[i].msg[4] => k = i

\* ---------------------------------------------------------- claims, tracker
\* C11: in every call of update the detections of the frame get pairwise
\* distinct track_ids, and a detection that gets the id of an existing track
\* has that track's class.
C11_DistinctIdsSameClass ==
  last_op.op = "track" =>
    /\ \A j, k \in DOMAIN dets_df :
         j # k => dets_df[j].track_id # dets_df[k].track_id
    /\ \A j \in DOMAIN dets_df : \A i \in DOMAIN last_op.before.tracks :
         last_op.before.tracks[i].tid = dets_df[j].track_id
         => last_op.before.tracks[i].cls_name = dets_df[j].cls_name

\* A truck and a car at the same place, the truck keeping the id of a track.
C11_Witness ==
  /\ last_op.op = "track"
  /\ \E j, k \in DOMAIN dets_df :
       /\ dets_df[j].bbox = dets_df[k].bbox
       /\ dets_df[j].cls_name # dets_df[k].cls_name
       /\ dets_df[j].track_id \in TrackIds(last_op.before.tracks)
       /\ dets_df[j].track_id # dets_df[k].track_id

\* C28: for a fixed tracker state the outcome of update does not depend on
\* the order of the detections: in the reversed frame each of two different
\* detections is matched to the same existing track, or to no existing track.
C28_OrderIndependent ==
  (/\ last_op.op = "track"
   /\ Len(last_op.detections) = 2
   /\ last_op.detections[1] # last_op.detections[2]) =>
    LET before == last_op.before
        d == last_op.detections
        fwd == TrackerUpdate(before, d).detections
        rev == TrackerUpdate(before, << d[2], d[1] >>).detections
        matched(x) == IF x.track_id \in TrackIds(before.tracks)
                        THEN x.track_id ELSE NoneId
    IN /\ matched(fwd[1]) = matched(rev[2])
       /\ matched(fwd[2]) = matched(rev[1])

\* Detection j of the call has the class of track tr of the tracker before the
\* call and an IoU >= iou_match with it, and no other detection of the frame
\* overlaps tr.
MatchCase(tr, j) ==
  LET d == last_op.detections[j]
      v == _iou(d.bbox, tr.bbox)
      m == last_op.before.iou_match
  IN /\ d.cls_name = tr.cls_name
     /\ v[1] * m[2] >= m[1] * v[2]
     /\ \A k \in DOMAIN last_op.detections :
          k # j => _iou(last_op.detections[k].bbox, tr.bbox)[1] = 0

\* Detection j got the id of tr, and tr now has its bbox and missed = 0.
MatchEffect(tr, j) ==
  /\ dets_df[j].track_id = tr.tid
  /\ \E i \in DOMAIN tracker.tracks :
       /\ tracker.tracks[i].tid = tr.tid
       /\ tracker.tracks[i].bbox = last_op.detections[j].bbox
       /\ tracker.tracks[i].missed = 0

\* tr has a greater IoU with detection j than every other track of its class.
StrictBest(tr, j) ==
  \A i \in DOMAIN last_op.before.tracks :
    LET other == last_op.before.tracks[i]
        d     == last_op.detections[j]
        v     == _iou(d.bbox, tr.bbox)
        w     == _iou(d.bbox, other.bbox)
    IN (other.tid # tr.tid /\ other.cls_name = d.cls_name)
       => v[1] * w[2] > w[1] * v[2]

\* C12, as stated: a detection of a live track's class with IoU >= iou_match
\* with it, the only detection of the frame overlapping the track, receives
\* the track's id, and the track takes its bbox with missed = 0.
C12_MatchKeepsId ==
  last_op.op = "track" =>
    \A i \in DOMAIN last_op.before.tracks, j \in DOMAIN last_op.detections :
      MatchCase(last_op.before.tracks[i], j)
      => MatchEffect(last_op.before.tracks[i], j)

\* C12, amended: the same, for the track that has the greatest IoU with the
\* detection among the live tracks of its class.
C12_BestMatchKeepsId ==
  last_op.op = "track" =>
    \A i \in DOMAIN last_op.before.tracks, j \in DOMAIN last_op.detections :
      (/\ MatchCase(last_op.before.tracks[i], j)
       /\ StrictBest(last_op.before.tracks[i], j))
      => MatchEffect(last_op.before.tracks[i], j)

\* A track that had gone max_missed ticks without a match was matched by a
\* detection at another place, with a second track of the class live.
C12_Witness ==
  /\ last_op.op = "track"
  /\ \E i \in DOMAIN last_op.before.tracks, j \in DOMAIN last_op.detections :
       LET tr == last_op.before.tracks[i] IN
       /\ MatchCase(tr, j)
       /\ StrictBest(tr, j)
       /\ tr.missed = last_op.before.max_missed
       /\ tr.bbox # last_op.detections[j].bbox
       /\ MatchEffect(tr, j)
       /\ \E i2 \in DOMAIN last_op.before.tracks :
            /\ last_op.before.tracks[i2].tid # tr.tid
            /\ last_op.before.tracks[i2].cls_name = tr.cls_name

\* C13: an unmatched track stays live, with missed one higher, while its
\* missed count is below max_missed, and is evicted on the tick that would
\* take it past max_missed; the id of an evicted track is never given to a
\* detection or a track again, ids being allocated from next_id, which only
\* grows.
C13_EvictionAndNoReuse ==
  last_op.op = "track" =>
    /\ \A i \in DOMAIN last_op.before.tracks :
         LET tr == last_op.before.tracks[i] IN
         tr.tid \notin OutIds(dets_df) =>
           IF tr.missed < last_op.before.max_missed
             THEN \E n \in DOMAIN tracker.tracks :
                    tracker.tracks[n] = [tr EXCEPT !.missed = tr.missed + 1]
             ELSE tr.tid \notin TrackIds(tracker.tracks)
    /\ OutIds(dets_df) \cap last_op.retired = {}
    /\ TrackIds(tracker.tracks) \cap last_op.retired = {}
    /\ tracker.next_id >= last_op.before.next_id
    /\ \A tid \in TrackIds(tracker.tracks) \cup last_op.retired : tid < tracker.next_id

\* A track at max_missed is evicted by this call, and a detection of the call
\* has a fresh id although a track evicted earlier had its class and bbox.
C13_Witness ==
  /\ last_op.op = "track"
  /\ \E i \in DOMAIN last_op.before.tracks :
       /\ last_op.before.tracks[i].missed = last_op.before.max_missed
       /\ last_op.before.tracks[i].tid \in last_op.retired
  /\ \E j \in DOMAIN dets_df : \E r \in last_op.retired :
       /\ dets_df[j].track_id > r
       /\ dets_df[j].track_id \notin TrackIds(last_op.before.tracks)

====
